---- MODULE Spec2Model ----
(***************************************************************************)
(* Model of MSChallenger's synchronisation core:                           *)
(*   - services.update_characters: worker pool + single writer task        *)
(*   - services.sync_blacklist_incremental: cursor-based list sync         *)
(* Dates are day ordinals (date.toordinal); an absent value is Null.       *)
(***************************************************************************)
EXTENDS Integers, Sequences, FiniteSets, TLC

\* ------------------------------------------------------------------------
\* Bounds of the model
\* ------------------------------------------------------------------------
MaxDay == 3

NumListed == 2

NumNames == 4

MaxWorkers == 2

WriteQMax == 2

DbBatch == 2

MaxCycles == 2

MaxItems == 3

NumSlots == 2

MaxDoy == 9

\* metrics in one final_stat body
MaxMetrics == 2

\* snapshot upserts applied in a row
MaxUpserts == 3

\* records on one page of the listing (100 in blacklist_fetcher.py, line 115)
PageSize == 2

\* the largest totalNum the listing reports
MaxTotal == 5

\* the largest retries argument of _call_with_retry
MaxRetries == 7

\* the names a backfill run can meet
NumPending == 2

\* the largest attempts counter of the pending list before a run
MaxTries == 2

\* ------------------------------------------------------------------------
\* Values
\* ------------------------------------------------------------------------
Null == -1

Days == 1..MaxDay

Todays == 2..(MaxDay + 1)

CutoverHour == 6

Hours == {CutoverHour - 1, CutoverHour}

Modes == {"skip", "purge"}

Names == 1..NumNames

Ocid(n) == NumNames + n

NameOf(o) == o - NumNames

Workers == 1..MaxWorkers

Today == MaxDay

Kinds == {"unresolved", "new", "fresh", "stale", "throws", "badrow"}

Stop == [op |-> "stop"]

Ocids == {Ocid(n) : n \in Names}

Max2(a, b) == IF a >= b THEN a ELSE b

VARIABLES
  character_list,      \* table character_list: names of the world
  characters,          \* table characters: ocid -> row
  character_stats,     \* table character_stats: set of <<ocid, stat_date, stat_name>>
  best,                \* table character_item_equipment_best: ocid -> row
  last_success_date,   \* blacklist_sync_log.last_success_date of the world (Null: no row)
  s_pc,                \* position of sync_blacklist_incremental
  first_start_date,    \* argument of the current run
  mode,                \* argument of the current run
  permanent_only,      \* argument of the current run
  latest,              \* _latest_available_block_date() of the current run
  start,               \* first day of the current run
  cur_day,             \* loop variable
  done_days,           \* loop counter
  s_names,             \* names selected for the day being processed
  s_result,            \* how the last run ended
  h_applied,           \* history: days whose fetch, classify and apply completed
  h_fetched,           \* history: days fetched by the current run, in order
  h_cursor0,           \* history: cursor value read by the current run
  cli,                 \* csrf_token and server_id of the run's BlacklistClient
  h_inits,             \* history: calls of cli.init() in the current run
  h_sent,              \* history: token and server id carried by the run's page requests
  cfg,                 \* arguments of update_characters
  kind,                \* what the remote API answers for each name
  cycle,               \* number of the update_characters call
  name_q,              \* asyncio.Queue of names and None (Null) sentinels
  name_unfinished,     \* name_q._unfinished_tasks
  write_q,             \* asyncio.Queue of intents and the None (Stop) sentinel
  write_unfinished,    \* write_q._unfinished_tasks
  m_pc,                \* position of the body of update_characters
  w_pc,                \* position of writer_task
  w_item,              \* the item writer_task took from write_q
  pending,             \* writer_task's count of executes since the last commit
  uncommitted,         \* statements executed by the writer and not yet committed
  workers,             \* per worker_task: position and locals
  done_counter,        \* done_counter["n"]
  h_put,               \* history: intents put on write_q in this cycle
  h_exec,              \* history: intents the writer executed in this cycle
  h_deq,               \* history: names dequeued in this cycle
  h_faulty,            \* history: an earlier cycle lost an intent, a worker, a name or a write
  f_op,                \* which function of the program is being called
  f_pc,                \* "call" before the function is applied, "done" after
  sel_in,              \* argument equip_json of pick_best_preset_by_lowest_drop_rate
  sel_out,             \* its return value
  cut_in,              \* the clock read by the two latest-available-day functions
  cut_out,             \* their return values
  cls_in,              \* blockDate and unBlockedDate of a list record
  cls_out,             \* the lock type _classify gives it
  api_in,              \* a NexonClient call and what the request meets
  api_out,             \* how the call ends
  call_in,             \* the arguments of a call of one of the other functions
  call_out             \* what that call does and returns

dbvars == << character_list, characters, character_stats, best >>

svars == << last_success_date, s_pc, first_start_date, mode, permanent_only,
            latest, start, cur_day, done_days, s_names, s_result,
            h_applied, h_fetched, h_cursor0, cli, h_inits, h_sent >>

ucvars == << cfg, kind, cycle, name_q, name_unfinished, write_q,
             write_unfinished, m_pc, w_pc, w_item, pending, uncommitted,
             workers, done_counter, h_put, h_exec, h_deq, h_faulty >>

selvars == << sel_in, sel_out >>

cutvars == << cut_in, cut_out >>

clsvars == << cls_in, cls_out >>

apivars == << api_in, api_out >>

callvars == << call_in, call_out >>

fvars == << f_op, f_pc, selvars, cutvars, clsvars, apivars, callvars >>

vars == << dbvars, svars, ucvars, fvars >>

\* ------------------------------------------------------------------------
\* services.py: blacklist apply and incremental sync
\* ------------------------------------------------------------------------
\* mutant of _latest_available_block_date: 06:00 itself still counts as early
_latest_available_block_date_late(today, hour) ==
  IF hour <= CutoverHour THEN today - 2 ELSE today - 1

\* _latest_available_block_date: the 06:00 rule
_latest_available_block_date(today, hour) ==
  IF hour < CutoverHour THEN today - 2 ELSE today - 1

\* mutants of StartDate: the cursor ignored; the cursor's own day taken again
StartDate_ignoreCursor(last, first) == first

StartDate_sameDay(last, first) ==
  IF last # Null THEN last ELSE first

\* line 984: start = last + 1 day if a cursor is stored, else first_start_date
StartDate(last, first) ==
  IF last # Null THEN last + 1 ELSE first

\* mutant of PersistDate: the cursor runs one day ahead of the applied day
PersistDate_ahead(day) == day + 1

\* line 1035: the date written to blacklist_sync_log after a day's apply
PersistDate(day) == day

\* blacklist_fetcher.extract_names / extract_permanent_names over the rows
\* of one day; a row is <<characterName, permanent>>
extract_names(rows) == {r[1] : r \in rows}

extract_permanent_names(rows) == {r[1] : r \in {x \in rows : x[2]}}

ListRows == (1..NumListed) \X BOOLEAN

\* purge_or_skip_blacklisted: the tables after the call
MatchedNames(blacklisted_names) == blacklisted_names \cap character_list

PurgedOcids(matched) ==
  {o \in DOMAIN characters : characters[o].character_name \in matched}

purge_or_skip_blacklisted(m, blacklisted_names) ==
  LET matched == MatchedNames(blacklisted_names)
      ocids == PurgedOcids(matched)
  IN  /\ character_list' = character_list \ matched
      /\ IF m = "skip" \/ matched = {}
         THEN UNCHANGED << characters, character_stats, best >>
         ELSE /\ characters' = [o \in (DOMAIN characters) \ ocids |-> characters[o]]
              /\ character_stats' = {t \in character_stats : t[1] \notin ocids}
              /\ best' = [o \in (DOMAIN best) \ ocids |-> best[o]]

\* blacklist_fetcher.py lines 19-21: a client that has no token and no
\* server id yet
NoSession == [csrf_token |-> Null, server_id |-> Null]

\* what init() can read from the page of the site (lines 28-57)
Sessions == {[csrf_token |-> 1, server_id |-> 1], [csrf_token |-> 2, server_id |-> 2]}

\* mutant of NeedsInit: every fetch establishes the session again
NeedsInit_always(c) == TRUE

\* blacklist_fetcher.py line 73: if not self.csrf_token or not self.server_id
NeedsInit(c) == c.csrf_token = Null \/ c.server_id = Null

SameSession == UNCHANGED << cli, h_inits, h_sent >>

\* the frame of a run that has returned, raised or died
NoRun ==
  /\ cli' = NoSession
  /\ h_inits' = 0
  /\ h_sent' = {}
  /\ s_pc' = "idle"
  /\ first_start_date' = Null
  /\ mode' = "skip"
  /\ permanent_only' = TRUE
  /\ latest' = Null
  /\ start' = Null
  /\ cur_day' = Null
  /\ done_days' = 0
  /\ s_names' = {}
  /\ h_fetched' = << >>
  /\ h_cursor0' = Null

SameRun ==
  UNCHANGED << first_start_date, mode, permanent_only, latest, start,
               h_cursor0 >>

\* lines 1008-1033: fetch_all_for_date or purge_or_skip_blacklisted raises
\* inside the loop body of day cur_day; the exception leaves the coroutine
\* before line 1035, and what the caller can tell is the day, the first day
\* of the run and the cursor the run found
DayFailed ==
  [ran |-> FALSE, reason |-> "day failed", total_days |-> 0,
   day |-> cur_day, start |-> start, cursor0 |-> h_cursor0]

\* lines 979-987: a run starts; it may return at once
SyncStart(first, today, hour, m, po) ==
  LET lat == _latest_available_block_date(today, hour)
      st == StartDate(last_success_date, first)
  IN
  /\ s_pc = "idle"
  /\ IF lat < first
     THEN /\ s_result' = [ran |-> FALSE, reason |-> "latest < first_start_date", total_days |-> 0]
          /\ NoRun
     ELSE IF st > lat
     THEN /\ s_result' = [ran |-> FALSE, reason |-> "up-to-date", total_days |-> 0]
          /\ NoRun
     ELSE /\ s_result' = [ran |-> FALSE, reason |-> "running", total_days |-> 0]
          /\ s_pc' = "init"
          /\ first_start_date' = first
          /\ mode' = m
          /\ permanent_only' = po
          /\ latest' = lat
          /\ h_cursor0' = last_success_date
          /\ start' = st
          /\ cur_day' = st
          /\ done_days' = 0
          /\ s_names' = {}
          /\ h_fetched' = << >>
          /\ cli' = NoSession
          /\ h_inits' = 0
          /\ h_sent' = {}
  /\ UNCHANGED << dbvars, last_success_date, h_applied, ucvars, fvars >>

\* lines 989-990: cli.init() succeeds and the client keeps the token and the
\* server id of the page, or raises and the run ends
SyncInit(ok, sess) ==
  /\ s_pc = "init"
  /\ IF ok
     THEN /\ s_pc' = "fetch"
          /\ cli' = sess
          /\ h_inits' = h_inits + 1
          /\ h_sent' = h_sent
          /\ SameRun
          /\ UNCHANGED << s_result, cur_day, done_days, s_names, h_fetched >>
     ELSE /\ NoRun
          /\ s_result' = [ran |-> FALSE, reason |-> "error", total_days |-> 0]
  /\ UNCHANGED << dbvars, last_success_date, h_applied, ucvars, fvars >>

\* lines 1001-1018: loop head, progress callback, fetch and classify one day;
\* fetch_all_for_date calls init() first when the client has no token or no
\* server id (blacklist_fetcher.py 73-74), and its requests carry the
\* client's token and server id (76-91)
SyncFetch(ok, rows, sess) ==
  /\ s_pc = "fetch"
  /\ cur_day <= latest
  /\ IF ok
     THEN /\ cli' = (IF NeedsInit(cli) THEN sess ELSE cli)
          /\ h_inits' = (IF NeedsInit(cli) THEN h_inits + 1 ELSE h_inits)
          /\ h_sent' = h_sent \cup {cli'}
          /\ done_days' = done_days + 1
          /\ s_names' = IF permanent_only THEN extract_permanent_names(rows)
                                          ELSE extract_names(rows)
          /\ h_fetched' = Append(h_fetched, cur_day)
          /\ s_pc' = "apply"
          /\ SameRun
          /\ UNCHANGED << s_result, cur_day >>
     ELSE /\ NoRun
          /\ s_result' = DayFailed
  /\ UNCHANGED << dbvars, last_success_date, h_applied, ucvars, fvars >>

\* lines 1020-1033: apply the day's names
SyncApply(ok) ==
  /\ s_pc = "apply"
  /\ IF s_names = {}
     THEN /\ ok
          /\ UNCHANGED dbvars
          /\ s_pc' = "persist"
          /\ h_applied' = h_applied \cup {cur_day}
          /\ SameRun
          /\ SameSession
          /\ UNCHANGED << s_result, cur_day, done_days, s_names, h_fetched >>
     ELSE IF ok
          THEN /\ purge_or_skip_blacklisted(mode, s_names)
               /\ s_pc' = "persist"
               /\ h_applied' = h_applied \cup {cur_day}
               /\ SameRun
               /\ SameSession
               /\ UNCHANGED << s_result, cur_day, done_days, s_names, h_fetched >>
          ELSE /\ UNCHANGED dbvars
               /\ NoRun
               /\ s_result' = DayFailed
               /\ h_applied' = h_applied
  /\ UNCHANGED << last_success_date, ucvars, fvars >>

\* mutant of TotalDays: the last day is not counted
TotalDays_short(lat, st) == lat - st

\* line 992: total_days = (latest - start).days + 1
TotalDays(lat, st) == (lat - st) + 1

\* lines 1035-1036 and the return at 1040: persist the cursor, next day
SyncPersist ==
  /\ s_pc = "persist"
  /\ last_success_date' = PersistDate(cur_day)
  /\ IF cur_day + 1 <= latest
     THEN /\ cur_day' = cur_day + 1
          /\ s_pc' = "fetch"
          /\ s_names' = {}
          /\ SameRun
          /\ SameSession
          /\ UNCHANGED << s_result, done_days, h_fetched >>
     ELSE /\ NoRun
          /\ s_result' = [ran |-> TRUE, reason |-> "ran",
                          total_days |-> TotalDays(latest, start)]
  /\ UNCHANGED << dbvars, h_applied, ucvars, fvars >>

\* lines 1002-1006: progress_cb(done_days, total_days, ...) raises; the call
\* is not guarded and the exception leaves sync_blacklist_incremental
SyncProgressRaises ==
  /\ s_pc = "fetch"
  /\ cur_day <= latest
  /\ NoRun
  /\ s_result' = [ran |-> FALSE, reason |-> "progress_cb raised", total_days |-> 0]
  /\ UNCHANGED << dbvars, last_success_date, h_applied, ucvars, fvars >>

\* the process dies while a run is in progress; the tables survive
SyncCrash ==
  /\ s_pc # "idle"
  /\ NoRun
  /\ s_result' = [ran |-> FALSE, reason |-> "crashed", total_days |-> 0]
  /\ UNCHANGED << dbvars, last_success_date, h_applied, ucvars, fvars >>

\* ------------------------------------------------------------------------
\* Properties of the incremental list sync
\* ------------------------------------------------------------------------
InDay == {"fetch", "apply", "persist"}

Crashed == s_result'.reason = "crashed"

\* C7: across any sequence of runs (complete, aborted, crashed, any
\* first_start_date, any clock) the persisted last_success_date never decreases
C7_CursorNeverDecreases ==
  [][last_success_date' >= last_success_date]_vars

\* a run that found a cursor, with first_start_date not after it, wrote a later one
C7_Witness ==
  /\ s_pc = "fetch"
  /\ h_cursor0 # Null
  /\ first_start_date <= h_cursor0
  /\ last_success_date > h_cursor0

\* C8 (original): a crash inside the processing of day d leaves the cursor at d-1
C8_CrashLeavesDayBefore ==
  [][(s_pc \in InDay /\ Crashed) => last_success_date' = cur_day - 1]_vars

\* C8 (amended): the cursor is only ever a fully applied day, every day of the
\* run up to the cursor is fully applied, and a crash inside the processing of
\* day d leaves the cursor as it was when day d began: d-1, or absent when no
\* day was ever applied
C8_CursorOnlyAfterApply ==
  /\ [](last_success_date # Null => last_success_date \in h_applied)
  /\ [](s_pc \in InDay =>
          /\ \A d \in start..(cur_day - 1) : d \in h_applied
          /\ last_success_date = (IF cur_day > start THEN cur_day - 1 ELSE h_cursor0)
          /\ h_cursor0 \in {Null, start - 1})
  /\ [][(s_pc \in InDay /\ Crashed) =>
          last_success_date' = (IF cur_day > start THEN cur_day - 1 ELSE h_cursor0)]_vars

\* a later day of a run is being applied while the cursor is the day before
C8_Witness ==
  /\ s_pc = "apply"
  /\ cur_day > start
  /\ last_success_date = cur_day - 1

\* C9: after N successful day-applications from 'start' the cursor is
\* start + (N-1); a run that found cursor k begins at k+1 and never fetches
\* day k or an earlier day
C9_Resumable ==
  /\ []((s_pc = "fetch" /\ done_days >= 1) => last_success_date = start + (done_days - 1))
  /\ [][(s_pc = "persist" /\ ~Crashed) => last_success_date' = start + (done_days - 1)]_vars
  /\ []((s_pc # "idle" /\ h_cursor0 # Null) =>
          /\ start = h_cursor0 + 1
          /\ \A i \in DOMAIN h_fetched : h_fetched[i] > h_cursor0
          /\ (h_fetched # << >> => h_fetched[1] = h_cursor0 + 1))

\* a resumed run has fetched two days after the cursor it found
C9_Witness ==
  /\ h_cursor0 # Null
  /\ Len(h_fetched) >= 2
  /\ s_pc = "persist"
  /\ h_fetched[1] = h_cursor0 + 1

\* C10: the first day processed is max(first_start_date, cursor + 1), and the
\* days follow in ascending order without gaps
C10_StartsAtMax ==
  h_fetched # << >> =>
    /\ h_fetched[1] = (IF h_cursor0 = Null THEN first_start_date
                       ELSE Max2(first_start_date, h_cursor0 + 1))
    /\ \A i \in 1..(Len(h_fetched) - 1) : h_fetched[i + 1] = h_fetched[i] + 1

\* C11: a run whose computed start is after the latest available day reports
\* ran = false and does no session init, no listing request, no apply and no
\* cursor write; a run that processed N >= 1 days reports ran = true with
\* total_days = N
C11_NothingToDoIsDistinct ==
  [][/\ (s_pc = "idle" /\ s_result' # s_result) =>
          \A first \in Days, today \in Todays, hour \in Hours :
             (/\ StartDate(last_success_date, first)
                   > _latest_available_block_date(today, hour)
              /\ \E m \in Modes, po \in BOOLEAN :
                    SyncStart(first, today, hour, m, po))
             => /\ s_result'.ran = FALSE
                /\ s_result'.reason \in {"up-to-date", "latest < first_start_date"}
                /\ s_pc' = "idle"
                /\ h_fetched' = << >>
                /\ UNCHANGED << dbvars, last_success_date, h_applied >>
     /\ (s_result'.ran /\ s_pc # "idle")
          => /\ s_pc = "persist"
             /\ done_days >= 1
             /\ Len(h_fetched) = done_days
             /\ s_result'.total_days = done_days
             /\ last_success_date' = start + (done_days - 1)]_vars

\* a run found the cursor already at the latest available day and returned
\* "up-to-date"
C11_Witness ==
  /\ s_pc = "idle"
  /\ s_result.reason = "up-to-date"
  /\ last_success_date # Null

\* C34: within one run the session is established exactly once, before the
\* first page request, and every page request of the run carries the token
\* and the server id that init obtained
C34_OneSessionPerRun ==
  /\ h_inits <= 1
  /\ s_pc \in InDay => (h_inits = 1 /\ cli \in Sessions)
  /\ h_sent \subseteq {cli}
  /\ h_fetched # << >> => h_sent = {cli}

\* a run that found a cursor has fetched its second day with the token and
\* the server id of its one init
C34_Witness ==
  /\ last_success_date # Null
  /\ h_cursor0 # Null
  /\ Len(h_fetched) = 2
  /\ h_inits = 1
  /\ h_sent = {cli}
  /\ cli.csrf_token = 2

\* C36: when fetching or applying day k fails the run stops with the cursor
\* below k, at the last fully applied day: day k-1 when the run applied a day
\* before k, else the cursor the run found; the cursor updates of the days
\* applied earlier in the run are kept
C36_FailedDayLeavesCursor ==
  (s_pc = "idle" /\ s_result.reason = "day failed") =>
    LET k == s_result.day
    IN  /\ last_success_date # Null =>
              (last_success_date < k /\ last_success_date \in h_applied)
        /\ \A d \in s_result.start..(k - 1) : d \in h_applied
        /\ last_success_date = (IF k > s_result.start THEN k - 1
                                ELSE s_result.cursor0)

\* a run failed on its second day and the cursor is its first day
C36_Witness ==
  /\ s_pc = "idle"
  /\ s_result.reason = "day failed"
  /\ s_result.day = s_result.start + 1
  /\ last_success_date = s_result.start
  /\ last_success_date # s_result.cursor0

\* C24: an exception raised by the caller's progress callback is swallowed:
\* no run of the list sync ends because its callback raised
C24_CallbackSwallowed ==
  s_result.reason # "progress_cb raised"

\* ------------------------------------------------------------------------
\* services.py: update_characters
\* ------------------------------------------------------------------------
Range(q) == {q[i] : i \in DOMAIN q}

RECURSIVE SortedSeq(_)
\* ORDER BY character_name (lines 332-338)
SortedSeq(S) ==
  IF S = {} THEN << >>
  ELSE LET m == CHOOSE x \in S : \A y \in S : x <= y
       IN  << m >> \o SortedSeq(S \ {m})

\* lines 314 and 317-327: the sample dates and the snapshot dates of a call
StatDates(days_back) == [i \in 1..(days_back + 1) |-> Today - (i - 1)]

EquipDates(equip_enabled, equip_date_mode, equip_days_back) ==
  IF ~equip_enabled THEN << >>
  ELSE IF equip_date_mode = "today" THEN << Null >>
  ELSE IF equip_date_mode = "date" THEN << Today >>
  ELSE [i \in 1..(equip_days_back + 1) |-> Today - (i - 1)]

\* what the remote API answers, after _call_with_retry, for each kind of name
get_ocid(n) == IF kind[n] = "unresolved" THEN Null ELSE Ocid(n)

\* a value of the profile body that sqlite cannot bind (a JSON object or list)
Unbindable == -2

get_basic(o) ==
  [malformed |-> kind[NameOf(o)] = "throws",
   character_level |-> IF kind[NameOf(o)] = "new" THEN 2 ELSE 1,
   character_class |-> IF kind[NameOf(o)] = "new" THEN 1
                       ELSE IF kind[NameOf(o)] = "badrow" THEN Unbindable
                       ELSE Null]

get_stat(o, ds) == << "power" >>

get_item_equipment(o, ed) == TRUE

\* the read helpers of lines 162-206
_get_ocid_from_db(name) ==
  IF \E o \in DOMAIN characters : characters[o].character_name = name
  THEN CHOOSE o \in DOMAIN characters : characters[o].character_name = name
  ELSE Null

_basic_updated_at(ocid) ==
  IF ocid \in DOMAIN characters THEN characters[ocid].updated_at ELSE Null

_days_since(day) == Today - day

should_refresh_character(ocid, refresh_days) ==
  IF _basic_updated_at(ocid) = Null THEN TRUE
  ELSE _days_since(_basic_updated_at(ocid)) >= refresh_days

_stat_date_exists(ocid, ds) ==
  \E t \in character_stats : t[1] = ocid /\ t[2] = ds

_equip_best_exists(ocid, d) ==
  ocid \in DOMAIN best /\ best[ocid].best_equip_date = d

\* int(x or 0) of lines 467-469
IntOr0(v) == IF v = Null THEN 0 ELSE v

\* the bound parameters of the three statements (lines 461-477, 502, 537)
BasicIntent(ocid, name, basic) ==
  [op |-> "basic", ocid |-> ocid, character_name |-> name,
   character_level |-> IntOr0(basic.character_level),
   character_class |-> basic.character_class, updated_at |-> Today]

StatIntents(ocid, ds, final_stat) ==
  [i \in DOMAIN final_stat |->
     [op |-> "stat", ocid |-> ocid, stat_date |-> ds, stat_name |-> final_stat[i]]]

EquipIntent(ocid, store_date) ==
  [op |-> "equip", ocid |-> ocid, best_equip_date |-> store_date]

\* INSERT INTO characters ... ON CONFLICT(ocid) DO UPDATE SET col=excluded.col
\* (lines 438-459): every column takes the incoming value
UpsertCharacterUC(rows, it) ==
  [o \in (DOMAIN rows) \cup {it.ocid} |->
     IF o = it.ocid
     THEN [character_name |-> it.character_name,
           character_level |-> it.character_level,
           character_class |-> it.character_class,
           updated_at |-> it.updated_at]
     ELSE rows[o]]

\* INSERT OR REPLACE INTO character_stats (lines 498-500)
ReplaceStat(stats, it) == stats \cup {<< it.ocid, it.stat_date, it.stat_name >>}

\* INSERT INTO character_item_equipment_best ... ON CONFLICT(ocid) (lines 528-535)
UpsertBest(rows, it) ==
  [o \in (DOMAIN rows) \cup {it.ocid} |->
     IF o = it.ocid THEN [best_equip_date |-> it.best_equip_date] ELSE rows[o]]

Execute(T, it) ==
  IF it.op = "basic" THEN [T EXCEPT !.characters = UpsertCharacterUC(@, it)]
  ELSE IF it.op = "stat" THEN [T EXCEPT !.character_stats = ReplaceStat(@, it)]
  ELSE [T EXCEPT !.best = UpsertBest(@, it)]

RECURSIVE ExecuteAll(_, _)
ExecuteAll(T, q) ==
  IF q = << >> THEN T ELSE ExecuteAll(Execute(T, Head(q)), Tail(q))

\* lines 374-378: db.execute raises on a parameter it cannot bind
ExecRaises(it) == it.op = "basic" /\ it.character_class = Unbindable

\* mutant of Executed: a failing statement discards the batch
Executed_rollback(q, it) == IF ExecRaises(it) THEN << >> ELSE Append(q, it)

\* lines 374-378: the statements of the open transaction after db.execute;
\* the exception is swallowed and the statement has no effect
Executed(q, it) == IF ExecRaises(it) THEN q ELSE Append(q, it)

Tables ==
  [characters |-> characters, character_stats |-> character_stats, best |-> best]

\* mutant of Commit: only a full batch is committed
Commit_fullBatchOnly(q) ==
  IF Len(q) >= DbBatch
  THEN /\ characters' = ExecuteAll(Tables, q).characters
       /\ character_stats' = ExecuteAll(Tables, q).character_stats
       /\ best' = ExecuteAll(Tables, q).best
  ELSE UNCHANGED << characters, character_stats, best >>

\* db.commit() of the writer's connection
Commit(q) ==
  /\ characters' = ExecuteAll(Tables, q).characters
  /\ character_stats' = ExecuteAll(Tables, q).character_stats
  /\ best' = ExecuteAll(Tables, q).best

\* asyncio.Queue.task_done: ValueError once nothing is unfinished
TaskDone(unf) == IF unf > 0 THEN unf - 1 ELSE unf

TaskDoneRaises(unf) == unf <= 0

\* lines 418-419 and 425-426 followed by the finally of line 544:
\* task_done() is called twice for one item
SkipUnfinished(unf) == TaskDone(TaskDone(unf))

SkipRaises(unf) == TaskDoneRaises(TaskDone(unf))

W0 ==
  [pc |-> "off", name |-> Null, ocid |-> Null, expired |-> FALSE,
   phase |-> "none", idx |-> 0, out |-> << >>]

At(pc) == [W0 EXCEPT !.pc = pc]

\* mutant of NextPos: the snapshots are fetched before the samples
NextPos_equipFirst(phase, idx) ==
  IF phase = "basic" /\ cfg.equip_dates # << >> THEN [pc |-> "equip", idx |-> 1]
  ELSE IF phase = "basic" THEN [pc |-> "stat", idx |-> 1]
  ELSE IF phase = "equip" /\ idx < Len(cfg.equip_dates) THEN [pc |-> "equip", idx |-> idx + 1]
  ELSE IF phase = "equip" THEN [pc |-> "stat", idx |-> 1]
  ELSE IF phase = "stat" /\ idx < Len(cfg.stat_dates) THEN [pc |-> "stat", idx |-> idx + 1]
  ELSE [pc |-> "end", idx |-> 0]

\* the position after a step of the per-entity protocol
NextPos(phase, idx) ==
  IF phase = "basic" THEN [pc |-> "stat", idx |-> 1]
  ELSE IF phase = "stat" /\ idx < Len(cfg.stat_dates) THEN [pc |-> "stat", idx |-> idx + 1]
  ELSE IF phase = "stat" /\ cfg.equip_dates # << >> THEN [pc |-> "equip", idx |-> 1]
  ELSE IF phase = "equip" /\ idx < Len(cfg.equip_dates) THEN [pc |-> "equip", idx |-> idx + 1]
  ELSE [pc |-> "end", idx |-> 0]

\* line 544: finally name_q.task_done(), then the next name_q.get()
Finally(w) ==
  /\ workers' = [workers EXCEPT
                   ![w] = At(IF TaskDoneRaises(name_unfinished) THEN "dead" ELSE "get")]
  /\ name_unfinished' = TaskDone(name_unfinished)

\* mutant of SkipEntity: the early exit is not taken, the entity goes on to
\* its profile
SkipEntity_goOn(w) ==
  /\ workers' = [workers EXCEPT
                   ![w] = [@ EXCEPT !.pc = "basic", !.ocid = Ocid(workers[w].name),
                                    !.expired = TRUE]]
  /\ UNCHANGED name_unfinished

\* continue / task_done() on the two early exits of the protocol
SkipEntity(w) ==
  /\ workers' = [workers EXCEPT
                   ![w] = At(IF SkipRaises(name_unfinished) THEN "dead" ELSE "get")]
  /\ name_unfinished' = SkipUnfinished(name_unfinished)

Proceed(w, phase, idx) ==
  IF NextPos(phase, idx).pc = "end"
  THEN Finally(w)
  ELSE /\ workers' = [workers EXCEPT ![w] =
                        [@ EXCEPT !.pc = NextPos(phase, idx).pc,
                                  !.idx = NextPos(phase, idx).idx,
                                  !.phase = "none", !.out = << >>]]
       /\ UNCHANGED name_unfinished

\* mutant of Emit: put never waits, the queue grows past its capacity
Emit_noWait(w, intents, phase, idx) ==
  /\ write_q' = write_q \o intents
  /\ write_unfinished' = write_unfinished + Len(intents)
  /\ h_put' = h_put \cup Range(intents)
  /\ Proceed(w, phase, idx)

\* await write_q.put(...) for each intent of a step: puts go through while
\* the queue has room; the worker is suspended on the first that finds it full
Emit(w, intents, phase, idx) ==
  LET room == WriteQMax - Len(write_q)
      k == IF Len(intents) <= room THEN Len(intents) ELSE room
      now == SubSeq(intents, 1, k)
      rest == SubSeq(intents, k + 1, Len(intents))
  IN  /\ write_q' = write_q \o now
      /\ write_unfinished' = write_unfinished + k
      /\ h_put' = h_put \cup Range(now)
      /\ IF rest = << >>
         THEN Proceed(w, phase, idx)
         ELSE /\ workers' = [workers EXCEPT ![w] =
                               [@ EXCEPT !.pc = "put", !.phase = phase,
                                         !.idx = idx, !.out = rest]]
              /\ UNCHANGED name_unfinished

\* lines 396-409: name_q.get(), the sentinel, the progress counter
WorkerGet(w) ==
  /\ workers[w].pc = "get"
  /\ name_q # << >>
  /\ name_q' = Tail(name_q)
  /\ IF Head(name_q) = Null
     THEN /\ workers' = [workers EXCEPT
                           ![w] = At(IF TaskDoneRaises(name_unfinished) THEN "dead" ELSE "done")]
          /\ name_unfinished' = TaskDone(name_unfinished)
          /\ UNCHANGED << done_counter, h_deq >>
     ELSE /\ workers' = [workers EXCEPT
                           ![w] = [W0 EXCEPT !.pc = "resolve", !.name = Head(name_q)]]
          /\ done_counter' = done_counter + 1
          /\ h_deq' = h_deq \cup {Head(name_q)}
          /\ UNCHANGED name_unfinished
  /\ UNCHANGED << dbvars, svars, fvars, cfg, kind, cycle, write_q, write_unfinished,
                  m_pc, w_pc, w_item, pending, uncommitted, h_put, h_exec, h_faulty >>

\* lines 411-426: resolve the identity, then the only_expired skip
WorkerResolve(w) ==
  LET me == workers[w]
      db_ocid == _get_ocid_from_db(me.name)
      ask == db_ocid = Null \/ cfg.force_refresh_all
      ocid == IF ask THEN get_ocid(me.name) ELSE db_ocid
      expired == IF cfg.force_refresh_all THEN TRUE
                 ELSE should_refresh_character(ocid, cfg.refresh_days)
  IN
  /\ me.pc = "resolve"
  /\ IF ocid = Null
     THEN SkipEntity(w)
     ELSE IF cfg.only_expired /\ ~expired
     THEN SkipEntity(w)
     ELSE /\ workers' = [workers EXCEPT ![w] =
                           [@ EXCEPT !.pc = "basic", !.ocid = ocid, !.expired = expired]]
          /\ UNCHANGED name_unfinished
  /\ UNCHANGED << dbvars, svars, fvars, cfg, kind, cycle, name_q, write_q,
                  write_unfinished, m_pc, w_pc, w_item, pending, uncommitted,
                  done_counter, h_put, h_exec, h_deq, h_faulty >>

\* mutant of WorkerBasic: the worker executes the profile statement on its
\* own connection
WorkerBasic_direct(w) ==
  /\ workers[w].pc = "basic"
  /\ characters' = UpsertCharacterUC(characters,
                      BasicIntent(workers[w].ocid, workers[w].name,
                                  get_basic(workers[w].ocid)))
  /\ Proceed(w, "basic", 0)
  /\ UNCHANGED << character_list, character_stats, best, svars, fvars, cfg, kind,
                  cycle, name_q, write_q, write_unfinished, m_pc, w_pc, w_item,
                  pending, uncommitted, done_counter, h_put, h_exec, h_deq,
                  h_faulty >>

\* lines 428-478: the profile
WorkerBasic(w) ==
  LET me == workers[w]
      updated_at == _basic_updated_at(me.ocid)
      basic_already_today == updated_at # Null /\ updated_at = cfg.base_date
      fetch == cfg.force_refresh_all \/ me.expired \/ ~basic_already_today
      basic == get_basic(me.ocid)
  IN
  /\ me.pc = "basic"
  /\ IF fetch /\ basic.malformed
     THEN /\ Finally(w)
          /\ UNCHANGED << write_q, write_unfinished, h_put >>
     ELSE Emit(w, IF fetch THEN << BasicIntent(me.ocid, me.name, basic) >> ELSE << >>,
               "basic", 0)
  /\ UNCHANGED << dbvars, svars, fvars, cfg, kind, cycle, name_q, m_pc, w_pc, w_item,
                  pending, uncommitted, done_counter, h_exec, h_deq, h_faulty >>

\* lines 481-503: one sample date
WorkerStat(w) ==
  LET me == workers[w]
      ds == cfg.stat_dates[me.idx]
      skip == /\ ~cfg.force_refresh_all
              /\ cfg.fetch_mode = "skip_existing"
              /\ _stat_date_exists(me.ocid, ds)
  IN
  /\ me.pc = "stat"
  /\ Emit(w, IF skip THEN << >> ELSE StatIntents(me.ocid, ds, get_stat(me.ocid, ds)),
          "stat", me.idx)
  /\ UNCHANGED << dbvars, svars, fvars, cfg, kind, cycle, name_q, m_pc, w_pc, w_item,
                  pending, uncommitted, done_counter, h_exec, h_deq, h_faulty >>

\* lines 506-538: one snapshot date
WorkerEquip(w) ==
  LET me == workers[w]
      ed == cfg.equip_dates[me.idx]
      store_date == IF ed = Null THEN cfg.base_date ELSE ed
      skip == /\ ~cfg.force_refresh_all
              /\ cfg.fetch_mode = "skip_existing"
              /\ _equip_best_exists(me.ocid, store_date)
  IN
  /\ me.pc = "equip"
  /\ Emit(w, IF skip \/ ~get_item_equipment(me.ocid, ed) THEN << >>
             ELSE << EquipIntent(me.ocid, store_date) >>,
          "equip", me.idx)
  /\ UNCHANGED << dbvars, svars, fvars, cfg, kind, cycle, name_q, m_pc, w_pc, w_item,
                  pending, uncommitted, done_counter, h_exec, h_deq, h_faulty >>

\* a worker suspended in write_q.put resumes when the queue has room
WorkerPut(w) ==
  /\ workers[w].pc = "put"
  /\ Len(write_q) < WriteQMax
  /\ Emit(w, workers[w].out, workers[w].phase, workers[w].idx)
  /\ UNCHANGED << dbvars, svars, fvars, cfg, kind, cycle, name_q, m_pc, w_pc, w_item,
                  pending, uncommitted, done_counter, h_exec, h_deq, h_faulty >>

\* lines 368-371 and 387-388: write_q.get(); the sentinel ends the loop and
\* whatever is pending is committed
WriterGet ==
  /\ w_pc = "get"
  /\ write_q # << >>
  /\ write_q' = Tail(write_q)
  /\ IF Head(write_q) = Stop
     THEN /\ w_pc' = "done"
          /\ write_unfinished' = TaskDone(write_unfinished)
          /\ Commit(uncommitted)
          /\ uncommitted' = << >>
          /\ pending' = 0
          /\ m_pc' = m_pc
          /\ UNCHANGED w_item
     ELSE /\ w_pc' = "exec"
          /\ w_item' = Head(write_q)
          /\ UNCHANGED << characters, character_stats, best, write_unfinished,
                          uncommitted, pending, m_pc >>
  /\ UNCHANGED << character_list, svars, fvars, cfg, kind, cycle, name_q,
                  name_unfinished, workers, done_counter, h_put, h_exec, h_deq,
                  h_faulty >>

\* lines 373-385: execute, count, task_done, commit every db_batch;
\* write_q.join() of line 558 is released when nothing is unfinished
WriterExec ==
  /\ w_pc = "exec"
  /\ w_pc' = "get"
  /\ w_item' = Stop
  /\ h_exec' = h_exec \cup {w_item}
  /\ write_unfinished' = TaskDone(write_unfinished)
  /\ m_pc' = IF m_pc = "wait_write" /\ write_unfinished' = 0 THEN "put_stop" ELSE m_pc
  /\ IF pending + 1 >= cfg.db_batch
     THEN /\ Commit(Executed(uncommitted, w_item))
          /\ uncommitted' = << >>
          /\ pending' = 0
     ELSE /\ uncommitted' = Executed(uncommitted, w_item)
          /\ pending' = pending + 1
          /\ UNCHANGED << characters, character_stats, best >>
  /\ UNCHANGED << character_list, svars, fvars, cfg, kind, cycle, name_q,
                  name_unfinished, write_q, workers, done_counter, h_put, h_deq,
                  h_faulty >>

\* lines 557-558: name_q.join() returns, write_q.join() begins
MainJoin ==
  /\ m_pc = "join_name"
  /\ name_unfinished = 0
  /\ m_pc' = IF write_unfinished = 0 THEN "put_stop" ELSE "wait_write"
  /\ UNCHANGED << dbvars, svars, fvars, cfg, kind, cycle, name_q, name_unfinished,
                  write_q, write_unfinished, w_pc, w_item, pending, uncommitted,
                  workers, done_counter, h_put, h_exec, h_deq, h_faulty >>

\* line 561: the sentinel for the writer
MainPutStop ==
  /\ m_pc = "put_stop"
  /\ Len(write_q) < WriteQMax
  /\ write_q' = Append(write_q, Stop)
  /\ write_unfinished' = write_unfinished + 1
  /\ m_pc' = "await_writer"
  /\ UNCHANGED << dbvars, svars, fvars, cfg, kind, cycle, name_q, name_unfinished,
                  w_pc, w_item, pending, uncommitted, workers, done_counter,
                  h_put, h_exec, h_deq, h_faulty >>

\* line 562: await w
MainAwaitWriter ==
  /\ m_pc = "await_writer"
  /\ w_pc = "done"
  /\ m_pc' = "gather"
  /\ UNCHANGED << dbvars, svars, fvars, cfg, kind, cycle, name_q, name_unfinished,
                  write_q, write_unfinished, w_pc, w_item, pending, uncommitted,
                  workers, done_counter, h_put, h_exec, h_deq, h_faulty >>

\* line 564: gather the workers, then the call returns
MainGather ==
  /\ m_pc = "gather"
  /\ \A w \in Workers : workers[w].pc \in {"off", "done", "dead"}
  /\ m_pc' = "done"
  /\ UNCHANGED << dbvars, svars, fvars, cfg, kind, cycle, name_q, name_unfinished,
                  write_q, write_unfinished, w_pc, w_item, pending, uncommitted,
                  workers, done_counter, h_put, h_exec, h_deq, h_faulty >>

\* lines 329-358 and 546-555: the names are read, the queues filled, the
\* tasks created and one None per worker put on name_q
Names0(W) == SortedSeq(character_list) \o [i \in 1..W |-> Null]

\* the caller runs update_characters again with the same arguments
UpdateCharactersAgain ==
  /\ m_pc = "done"
  /\ cycle < MaxCycles
  /\ cycle' = cycle + 1
  /\ h_faulty' = (\/ h_faulty
                  \/ ~(h_put \subseteq h_exec)
                  \/ h_deq # character_list
                  \/ \E it \in h_exec : ExecRaises(it)
                  \/ \E w \in Workers : workers[w].pc = "dead")
  /\ name_q' = Names0(cfg.max_workers)
  /\ name_unfinished' = Len(Names0(cfg.max_workers))
  /\ write_q' = << >>
  /\ write_unfinished' = 0
  /\ m_pc' = "join_name"
  /\ w_pc' = "get"
  /\ w_item' = Stop
  /\ pending' = 0
  /\ uncommitted' = << >>
  /\ workers' = [w \in Workers |-> IF w <= cfg.max_workers THEN At("get") ELSE At("off")]
  /\ done_counter' = 0
  /\ h_put' = {}
  /\ h_exec' = {}
  /\ h_deq' = {}
  /\ UNCHANGED << dbvars, svars, fvars, cfg, kind >>

\* ------------------------------------------------------------------------
\* Properties of update_characters
\* ------------------------------------------------------------------------
\* C1: every intent a worker puts on write_q is executed by the writer task
\* before the writer task exits
C1_AllIntentsExecuted ==
  w_pc = "done" => h_put \subseteq h_exec

\* C2: when the call has returned, every name of the work list was dequeued,
\* whatever happened to the other names
C2_EveryNameDequeued ==
  (cycle >= 1 /\ m_pc = "done") => h_deq = character_list

\* C3: no task stays blocked on a put: a worker suspended on the full
\* write queue always has a writer left to take an item
C3_NoTaskBlockedForever ==
  ~(/\ w_pc = "done"
    /\ Len(write_q) >= WriteQMax
    /\ \E w \in Workers : workers[w].pc = "put")

\* C4: a stored non-null optional field (character_class) is never replaced
\* by an absent value
C4_NullCoalescing ==
  [][\A o \in (DOMAIN characters) \cap (DOMAIN characters') :
       characters[o].character_class # Null =>
         characters'[o].character_class = characters[o].character_class]_vars

\* C5: the stored character_level of an entity never decreases
C5_LevelMonotonic ==
  [][\A o \in (DOMAIN characters) \cap (DOMAIN characters') :
       characters'[o].character_level >= characters[o].character_level]_vars

\* C6: with skip_existing, no force refresh and refresh_days >= 1, a second
\* cycle on the same day, after a first cycle that processed every name and
\* whose intents were all executed without error and committed, puts no
\* intent on the write queue
C6_SecondCycleWritesNothing ==
  (/\ cycle = 2
   /\ ~h_faulty
   /\ cfg.fetch_mode = "skip_existing"
   /\ ~cfg.force_refresh_all
   /\ cfg.refresh_days >= 1) => h_put = {}

\* ------------------------------------------------------------------------
\* services.py: pick_best_preset_by_lowest_drop_rate
\* ------------------------------------------------------------------------
\* lines 95-99: preset_keys
PresetNos == 1..3

Slots == 1..NumSlots

\* an equipment record: its slot key (0: neither item_equipment_slot nor
\* item_equipment_part, or not a dict) and how many times its serialized form
\* holds the marker
SelItems == [slot : Slots, mark : {0, 1}] \cup {[slot |-> 0, mark |-> 1]}

\* a key of equip_json that is missing or does not hold a list
Absent == [list |-> FALSE, items |-> << >>]

\* the values of a key that hold n records; with none, the key may be missing
ListValues(n) ==
  {[list |-> TRUE, items |-> l] : l \in [1..n -> SelItems]}
    \cup (IF n = 0 THEN {Absent} ELSE {})

\* lines 105-107
_slot_key(it) == it.slot

RECURSIVE MergeInto_keepFirst(_, _)
\* mutant of MergeInto: a key already in the dict keeps its record
MergeInto_keepFirst(merged, lst) ==
  IF lst = << >> THEN merged
  ELSE LET it == Head(lst)
           k == _slot_key(it)
       IN  MergeInto_keepFirst(IF k # 0 THEN merged @@ (k :> it) ELSE merged,
                               Tail(lst))

RECURSIVE MergeInto(_, _)
\* lines 113-118 and 120-125: merged[k] = it for every record with a key
MergeInto(merged, lst) ==
  IF lst = << >> THEN merged
  ELSE LET it == Head(lst)
           k == _slot_key(it)
       IN  MergeInto(IF k # 0 THEN (k :> it) @@ merged ELSE merged, Tail(lst))

\* mutant of _merge_items: the records in descending key order
_merge_items_desc(base, preset) ==
  LET merged == MergeInto(MergeInto([k \in {} |-> Absent], base), preset)
      ks == SortedSeq(DOMAIN merged)
  IN  [i \in 1..Len(ks) |-> merged[ks[Len(ks) + 1 - i]]]

\* lines 109-127: base first, preset over it, output sorted by key
_merge_items(base, preset) ==
  LET merged == MergeInto(MergeInto([k \in {} |-> Absent], base), preset)
      ks == SortedSeq(DOMAIN merged)
  IN  [i \in 1..Len(ks) |-> merged[ks[i]]]

RECURSIVE count_drop_rate_mentions(_)
\* lines 54-57 over json.dumps(merged_items) of line 136: the occurrences of
\* the marker in the serialized list are those of its records
count_drop_rate_mentions(items) ==
  IF items = << >> THEN 0
  ELSE Head(items).mark + count_drop_rate_mentions(Tail(items))

\* mutant of SortKeyLeq: the preset 2 flag is left out of the key
SortKeyLeq_noPrefer2(c, d) ==
  \/ c[1] < d[1]
  \/ c[1] = d[1] /\ c[3] <= d[3]

\* line 145: the order of the keys (x[0], x[1], x[2])
SortKeyLeq(c, d) ==
  \/ c[1] < d[1]
  \/ c[1] = d[1] /\ c[2] < d[2]
  \/ c[1] = d[1] /\ c[2] = d[2] /\ c[3] <= d[3]

\* lines 101-103
BaseItems(equip_json) ==
  IF equip_json.item_equipment.list THEN equip_json.item_equipment.items
  ELSE << >>

\* lines 131-133: the presets that are non-empty lists
CandidateNos(equip_json) ==
  {no \in PresetNos : /\ equip_json.presets[no].list
                      /\ equip_json.presets[no].items # << >>}

\* lines 135-139: (drop_cnt, prefer2_flag, preset_no, merged_items)
Candidate(equip_json, no) ==
  LET merged_items == _merge_items(BaseItems(equip_json), equip_json.presets[no].items)
  IN  << count_drop_rate_mentions(merged_items), IF no = 2 THEN 0 ELSE 1, no,
         merged_items >>

\* mutant of PassThrough: the base merged with nothing, hence sorted
PassThrough_sorted(equip_json) ==
  [equip_json EXCEPT !.item_equipment =
     [list |-> TRUE, items |-> _merge_items(BaseItems(equip_json), << >>)]]

\* lines 92-93 and 141-143: return equip_json
PassThrough(equip_json) == equip_json

\* lines 92-155
pick_best_preset_by_lowest_drop_rate(equip_json) ==
  LET candidates == {Candidate(equip_json, no) : no \in CandidateNos(equip_json)}
      first == CHOOSE c \in candidates : \A d \in candidates : SortKeyLeq(c, d)
  IN  IF candidates = {} THEN PassThrough(equip_json)
      ELSE [item_equipment |-> [list |-> TRUE, items |-> first[4]],
            presets |-> [no \in PresetNos |-> Absent],
            preset_no |-> first[3]]

\* the arguments explored: at most MaxItems records in the four lists together
SelInputs ==
  UNION {[item_equipment : ListValues(n[0]),
          presets : {<< p1, p2, p3 >> : p1 \in ListValues(n[1]),
                                         p2 \in ListValues(n[2]),
                                         p3 \in ListValues(n[3])},
          preset_no : {Null}] :
           n \in {m \in [0..3 -> 0..MaxItems] : m[0] + m[1] + m[2] + m[3] <= MaxItems}}

NoEquip == [item_equipment |-> Absent, presets |-> [no \in PresetNos |-> Absent],
            preset_no |-> Null]

\* line 522: trimmed = pick_best_preset_by_lowest_drop_rate(equip_json)
SelectBest ==
  /\ f_op = "select"
  /\ f_pc = "call"
  /\ sel_out' = pick_best_preset_by_lowest_drop_rate(sel_in)
  /\ f_pc' = "done"
  /\ UNCHANGED << dbvars, svars, ucvars, f_op, sel_in, cutvars, clsvars, apivars,
               callvars >>

\* ------------------------------------------------------------------------
\* Properties of the snapshot selector
\* ------------------------------------------------------------------------
Selected == f_op = "select" /\ f_pc = "done"

SlotKeys(l) == {l[i].slot : i \in DOMAIN l} \ {0}

MergedCost(e, no) ==
  count_drop_rate_mentions(_merge_items(BaseItems(e), e.presets[no].items))

\* the presets whose merged record has the least cost
Cheapest(e) ==
  {no \in CandidateNos(e) : \A o \in CandidateNos(e) : MergedCost(e, no) <= MergedCost(e, o)}

SeqPerms(l) ==
  {[i \in DOMAIN l |-> l[q[i]]] :
     q \in {f \in [DOMAIN l -> DOMAIN l] : \A i, j \in DOMAIN l : f[i] = f[j] => i = j}}

\* the same equip_json with the records of each list in another order
Reordered(e) ==
  {[item_equipment |-> [list |-> e.item_equipment.list, items |-> b],
    presets |-> [no \in PresetNos |->
                   [list |-> e.presets[no].list,
                    items |-> IF no = 1 THEN p1 ELSE IF no = 2 THEN p2 ELSE p3]],
    preset_no |-> e.preset_no] :
     b \in SeqPerms(e.item_equipment.items),
     p1 \in SeqPerms(e.presets[1].items),
     p2 \in SeqPerms(e.presets[2].items),
     p3 \in SeqPerms(e.presets[3].items)}

\* C12: among the non-empty presets, each merged with the base, the selector
\* returns the one of least cost; among those of equal least cost preset 2
\* wins, otherwise the lowest number; preset_no names the winner
C12_MinCostPrefer2 ==
  (Selected /\ CandidateNos(sel_in) # {}) =>
    LET tied == Cheapest(sel_in)
        w == IF 2 \in tied THEN 2
             ELSE CHOOSE no \in tied : \A o \in tied : no <= o
    IN  /\ sel_out.preset_no = w
        /\ sel_out.item_equipment.items =
             _merge_items(BaseItems(sel_in), sel_in.presets[w].items)

\* presets 1 and 2 tie at the least cost and preset 2 is returned
C12_Witness ==
  /\ Selected
  /\ {1, 2} \subseteq Cheapest(sel_in)
  /\ 3 \in CandidateNos(sel_in) \ Cheapest(sel_in)
  /\ sel_out.preset_no = 2
  /\ sel_out.item_equipment.items # << >>

\* C13: the same base and presets in any order of their records (two records
\* with one slot key included) give the same winner and the same merged record
C13_OrderIndependent ==
  (Selected /\ CandidateNos(sel_in) # {}) =>
    \A e \in Reordered(sel_in) :
       /\ pick_best_preset_by_lowest_drop_rate(e).preset_no = sel_out.preset_no
       /\ pick_best_preset_by_lowest_drop_rate(e).item_equipment = sel_out.item_equipment

\* C14: the merged record holds the preset's record for every key of the
\* preset, the base's record for every key of the base alone, and nothing else
C14_MergeKeepsBaseOnlySlots ==
  (Selected /\ CandidateNos(sel_in) # {}) =>
    LET base == BaseItems(sel_in)
        preset == sel_in.presets[sel_out.preset_no].items
        out == sel_out.item_equipment.items
    IN  /\ {out[i].slot : i \in DOMAIN out} = SlotKeys(preset) \cup SlotKeys(base)
        /\ Len(out) = Cardinality(SlotKeys(preset) \cup SlotKeys(base))
        /\ \A i \in DOMAIN out :
             IF out[i].slot \in SlotKeys(preset)
             THEN \E j \in DOMAIN preset : preset[j] = out[i]
             ELSE \E j \in DOMAIN base : base[j] = out[i]

\* the base has a slot the winning preset lacks and a slot whose record the
\* preset replaced
C14_Witness ==
  /\ Selected
  /\ CandidateNos(sel_in) # {}
  /\ SlotKeys(BaseItems(sel_in)) \ SlotKeys(sel_in.presets[sel_out.preset_no].items) # {}
  /\ \E i \in DOMAIN BaseItems(sel_in) :
       /\ BaseItems(sel_in)[i].slot \in SlotKeys(sel_in.presets[sel_out.preset_no].items)
       /\ \A j \in DOMAIN sel_out.item_equipment.items :
            sel_out.item_equipment.items[j] # BaseItems(sel_in)[i]

\* C15: with no preset list, or only empty ones, the selector returns its
\* argument unchanged: same records, same order
C15_ZeroCandidatesPassThrough ==
  (Selected /\ CandidateNos(sel_in) = {}) => sel_out = sel_in

\* an unsorted base and an empty preset list came back as they were
C15_Witness ==
  /\ Selected
  /\ CandidateNos(sel_in) = {}
  /\ \E no \in PresetNos : sel_in.presets[no].list
  /\ Len(sel_in.item_equipment.items) = 2
  /\ sel_in.item_equipment.items[1].slot > sel_in.item_equipment.items[2].slot
  /\ sel_in.item_equipment.items[2].slot # 0
  /\ sel_out.item_equipment.items = sel_in.item_equipment.items

\* C16 (original): for every input the records of the output are in ascending
\* slot-key order with at most one record per key
C16_OutputAlwaysSorted ==
  Selected =>
    LET out == sel_out.item_equipment.items
    IN  \A i, j \in DOMAIN out :
          (i < j /\ out[i].slot # 0 /\ out[j].slot # 0) => out[i].slot < out[j].slot

\* C16 (amended): whenever at least one preset is a non-empty list, every
\* record of the output has a slot key and the keys are strictly ascending
C16_MergedOutputSorted ==
  (Selected /\ CandidateNos(sel_in) # {}) =>
    LET out == sel_out.item_equipment.items
    IN  /\ \A i \in DOMAIN out : out[i].slot # 0
        /\ \A i, j \in DOMAIN out : i < j => out[i].slot < out[j].slot

\* a base given in descending key order was merged into two ascending records
C16_Witness ==
  /\ Selected
  /\ CandidateNos(sel_in) # {}
  /\ Len(BaseItems(sel_in)) = 2
  /\ BaseItems(sel_in)[1].slot > BaseItems(sel_in)[2].slot
  /\ BaseItems(sel_in)[2].slot # 0
  /\ Len(sel_out.item_equipment.items) = 2

\* ------------------------------------------------------------------------
\* services.py and app.py: the latest available listing day
\* ------------------------------------------------------------------------
DayHours == 0..23

\* app.py lines 240-245: the dashboard's copy of the 06:00 rule
latest_available_blacklist_date(today, hour) ==
  IF hour < CutoverHour THEN today - 2 ELSE today - 1

NoClock == [today |-> Today, hour |-> 0]

NoDays == [service |-> Null, app |-> Null]

\* datetime.now() is read and both functions are evaluated
LatestAvailable ==
  /\ f_op = "cutover"
  /\ f_pc = "call"
  /\ cut_out' = [service |-> _latest_available_block_date(cut_in.today, cut_in.hour),
                 app |-> latest_available_blacklist_date(cut_in.today, cut_in.hour)]
  /\ f_pc' = "done"
  /\ UNCHANGED << dbvars, svars, ucvars, f_op, selvars, cut_in, clsvars, apivars,
               callvars >>

\* C17: the latest available day is today - 2 strictly before 06:00 and
\* today - 1 at or after 06:00, and the service function and the dashboard
\* function agree at every time
C17_CutoverAtSix ==
  (f_op = "cutover" /\ f_pc = "done") =>
    /\ cut_out.service = (IF cut_in.hour < 6 THEN cut_in.today - 2 ELSE cut_in.today - 1)
    /\ cut_out.app = cut_out.service

\* both functions were evaluated at 06:00 and gave yesterday
C17_Witness ==
  /\ f_op = "cutover"
  /\ f_pc = "done"
  /\ cut_in.hour = 6
  /\ cut_out.app = cut_in.today - 1
  /\ cut_out.service = cut_in.today - 1

\* ------------------------------------------------------------------------
\* app.py: the lock type of a list record
\* ------------------------------------------------------------------------
PermanentYear == 2079

ListYear == 2025

DaysPerYear == 365

\* a date text: "YYYY/MM/DD", "YYYY-MM-DD", the empty or missing text, or
\* text that is no date; year and day of the year are those it denotes
NoText == [fmt |-> "empty", year |-> 0, doy |-> 0]

BadText == [fmt |-> "bad", year |-> 0, doy |-> 0]

BlockTexts ==
  [fmt : {"slash", "iso"}, year : {ListYear}, doy : {0, 1, DaysPerYear - 1}]
    \cup {NoText, BadText}

UnblockTexts ==
  [fmt : {"slash", "iso"},
   year : {ListYear, ListYear + 1, PermanentYear - 1, PermanentYear, PermanentYear + 1},
   doy : 0..MaxDoy]
    \cup {NoText, BadText}

NoDate == [ok |-> FALSE, year |-> 0, doy |-> 0]

\* lines 247-257: None for empty text and for text neither format parses
parse_ymd(s) ==
  IF s.fmt = "empty" THEN NoDate
  ELSE IF s.fmt = "slash" THEN [ok |-> TRUE, year |-> s.year, doy |-> s.doy]
  ELSE IF s.fmt = "iso" THEN [ok |-> TRUE, year |-> s.year, doy |-> s.doy]
  ELSE NoDate

\* (ud - bd).days of line 272
DaysBetween(bd, ud) ==
  (ud.year * DaysPerYear + ud.doy) - (bd.year * DaysPerYear + bd.doy)

\* lines 259-264
is_permanent_unblock_date(unblocked) ==
  LET d == parse_ymd(unblocked)
  IN  IF ~d.ok THEN FALSE ELSE d.year >= PermanentYear

\* mutant of is_7day_lock: a span of zero days counts
is_7day_lock_zero(blocked, unblocked) ==
  LET bd == parse_ymd(blocked)
      ud == parse_ymd(unblocked)
  IN  IF ~bd.ok \/ ~ud.ok THEN FALSE
      ELSE /\ DaysBetween(bd, ud) <= 7
           /\ DaysBetween(bd, ud) >= 0
           /\ ud.year < PermanentYear

\* lines 266-272
is_7day_lock(blocked, unblocked) ==
  LET bd == parse_ymd(blocked)
      ud == parse_ymd(unblocked)
  IN  IF ~bd.ok \/ ~ud.ok THEN FALSE
      ELSE /\ DaysBetween(bd, ud) <= 7
           /\ DaysBetween(bd, ud) >= 1
           /\ ud.year < PermanentYear

\* lines 740-747
_classify(row) ==
  IF is_permanent_unblock_date(row.unBlockedDate) THEN "permanent"
  ELSE IF is_7day_lock(row.blockDate, row.unBlockedDate) THEN "7day"
  ELSE "other"

NoRecord == [blockDate |-> NoText, unBlockedDate |-> NoText]

\* line 750: df.apply(_classify, axis=1), one row
Classify ==
  /\ f_op = "classify"
  /\ f_pc = "call"
  /\ cls_out' = _classify(cls_in)
  /\ f_pc' = "done"
  /\ UNCHANGED << dbvars, svars, ucvars, f_op, selvars, cutvars, cls_in, apivars,
               callvars >>

Classified == f_op = "classify" /\ f_pc = "done"

Parses(s) == s.fmt \in {"slash", "iso"}

\* C18: a record is permanent if its unblock year is >= 2079, temporary if the
\* unblock date is 1 to 7 days after the block date and its year is below
\* 2079, and other in every remaining case; it gets exactly one class
C18_Classification ==
  Classified =>
    LET b == cls_in.blockDate
        u == cls_in.unBlockedDate
        span == (u.year * 365 + u.doy) - (b.year * 365 + b.doy)
    IN  /\ cls_out \in {"permanent", "7day", "other"}
        /\ cls_out = "permanent" <=> (Parses(u) /\ u.year >= 2079)
        /\ cls_out = "7day" <=>
             (Parses(u) /\ Parses(b) /\ span >= 1 /\ span <= 7 /\ u.year < 2079)

\* a record unblocked exactly 7 days after its block date, across the new
\* year, is temporary
C18_Witness ==
  /\ Classified
  /\ Parses(cls_in.blockDate)
  /\ Parses(cls_in.unBlockedDate)
  /\ cls_in.unBlockedDate.year = cls_in.blockDate.year + 1
  /\ DaysBetween(cls_in.blockDate, cls_in.unBlockedDate) = 7
  /\ cls_out = "7day"

\* ------------------------------------------------------------------------
\* nexon_api.py: NexonClient
\* ------------------------------------------------------------------------
\* lines 26-68: the operations; get_stat and get_item_equipment take an
\* optional date
ClientOps ==
  [op : {"get_ocid", "get_basic", "get_guild_id", "get_guild_basic"}, dated : {FALSE}]
    \cup [op : {"get_stat", "get_item_equipment"}, dated : BOOLEAN]

\* what a request meets: session.get raises (network error, timeout), or a
\* response arrives with a status and a body; the body of a 200 is a JSON
\* object, the empty object, no body, text that is no JSON, or not declared as
\* JSON; the text of another status is readable or the read raises
Meets ==
  [phase : {"network", "timeout"}, status : {0}, body : {"none"}]
    \cup [phase : {"response"}, status : {404, 429, 500}, body : {"text", "unreadable"}]
    \cup [phase : {"response"}, status : {200},
          body : {"object", "empty_object", "empty", "malformed", "not_json"}]

Raised == [raised |-> TRUE, data |-> "none", err |-> FALSE]

\* lines 18-22: the body of the try statement
TryGetJson(meets) ==
  IF meets.phase # "response" THEN Raised
  ELSE IF meets.status # 200
       THEN IF meets.body = "unreadable" THEN Raised
            ELSE [raised |-> FALSE, data |-> "none", err |-> TRUE]
  ELSE IF meets.body \in {"malformed", "not_json"} THEN Raised
  ELSE IF meets.body = "empty" THEN [raised |-> FALSE, data |-> "none", err |-> FALSE]
  ELSE [raised |-> FALSE, data |-> meets.body, err |-> FALSE]

\* mutant of _get_json: no except clause
_get_json_uncaught(meets) == TryGetJson(meets)

\* lines 16-24: except Exception returns (None, diagnostic)
_get_json(meets) ==
  IF TryGetJson(meets).raised THEN [raised |-> FALSE, data |-> "none", err |-> TRUE]
  ELSE TryGetJson(meets)

\* lines 28-29, 33-34, 42-43, 47-48, 52-53, 67-68: return data if data else None
ClientCall(call) ==
  LET r == _get_json(call.meets)
  IN  IF r.raised THEN [raised |-> TRUE, value |-> "absent"]
      ELSE [raised |-> FALSE,
            value |-> IF r.data = "object" THEN "object" ELSE "absent"]

NoCall == [op |-> "get_ocid", dated |-> FALSE,
           meets |-> [phase |-> "network", status |-> 0, body |-> "none"]]

NoReturn == [raised |-> FALSE, value |-> "absent"]

ApiCalls ==
  {[op |-> o.op, dated |-> o.dated, meets |-> m] : o \in ClientOps, m \in Meets}

\* one call of a client operation
ClientOperation ==
  /\ f_op = "client"
  /\ f_pc = "call"
  /\ api_out' = ClientCall(api_in)
  /\ f_pc' = "done"
  /\ UNCHANGED << dbvars, svars, ucvars, f_op, selvars, cutvars, clsvars, api_in,
               callvars >>

Called == f_op = "client" /\ f_pc = "done"

\* C19: every client operation, whatever the request meets (a status other
\* than 200, a timeout or network exception, a malformed or empty body),
\* returns absent and never raises to its caller
C19_ClientFailsSoft ==
  Called =>
    /\ ~api_out.raised
    /\ (api_in.meets.phase # "response"
          \/ api_in.meets.status # 200
          \/ api_in.meets.body # "object") => api_out.value = "absent"

\* a dated get_stat call met a timeout and returned absent
C19_Witness ==
  /\ Called
  /\ api_in.op = "get_stat"
  /\ api_in.dated
  /\ api_in.meets.phase = "timeout"
  /\ ~api_out.raised
  /\ api_out.value = "absent"

\* ------------------------------------------------------------------------
\* services.py: one sample date and one snapshot date of worker_task
\* ------------------------------------------------------------------------
\* no call of these functions in progress
NoArgs == [op |-> "none"]

NoResult == [op |-> "none"]

\* the frame of a call of one of these functions
OtherCalls == UNCHANGED << dbvars, svars, ucvars, f_op, selvars, cutvars, clsvars,
                           apivars, call_in >>

\* stat_name of an entry of final_stat; "" stands for a missing or empty name
MetricNames == {"", "power", "luck"}

\* stat_value of an entry: null, a number as text, a text that is no number
MetricValues == {"null", "12", "x"}

\* lines 25-36: None for None, for "" and for what float() rejects
safe_float(v) == IF v = "12" THEN 12 ELSE Null

Metrics == [stat_name : MetricNames, stat_value : MetricValues]

\* what get_stat / get_item_equipment hand back after _call_with_retry and
\* _unpack_api_result: nothing, or a body (with its final_stat for a sample)
NoBody == [present |-> FALSE, final_stat |-> << >>]

Bodies ==
  {NoBody} \cup
  UNION {[present : {TRUE}, final_stat : [1..n -> Metrics]] : n \in 0..MaxMetrics}

\* the inputs of one date of the loops of lines 481 and 507: the arguments of
\* the run, whether the row is stored, whether the read of it raises, and
\* what the API answers
DateSteps ==
  [step : {"stat", "equip"}, force_refresh_all : BOOLEAN,
   fetch_mode : {"skip_existing", "full_fetch"}, stored : BOOLEAN,
   read_raises : BOOLEAN, body : Bodies]

\* mutant of SkipsDate: force_refresh_all is not consulted
SkipsDate_ignoreForce(a) ==
  /\ a.fetch_mode = "skip_existing"
  /\ ~a.read_raises
  /\ a.stored

\* lines 482-487 and 510-515: `continue` when the run is skip_existing
\* without force refresh and the read finds the row; a read that raises is
\* passed over and the date is fetched
SkipsDate(a) ==
  /\ ~a.force_refresh_all
  /\ a.fetch_mode = "skip_existing"
  /\ ~a.read_raises
  /\ a.stored

\* lines 491-503: one put per entry with a name and a numeric value
StatPuts(body) ==
  IF ~body.present THEN << >>
  ELSE LET kept == SelectSeq(body.final_stat,
                             LAMBDA m : m.stat_name # "" /\ safe_float(m.stat_value) # Null)
       IN  [i \in DOMAIN kept |->
              [op |-> "stat", stat_name |-> kept[i].stat_name,
               stat_value |-> safe_float(kept[i].stat_value)]]

\* lines 518-538: nothing for an absent body, else one put
EquipPuts(body) ==
  IF ~body.present THEN << >> ELSE << [op |-> "equip"] >>

\* one iteration of the loop of line 481 or of line 507
DateStep(a) ==
  IF SkipsDate(a)
  THEN [op |-> a.step, requested |-> FALSE, puts |-> << >>]
  ELSE [op |-> a.step, requested |-> TRUE,
        puts |-> IF a.step = "stat" THEN StatPuts(a.body) ELSE EquipPuts(a.body)]

OneDate ==
  /\ f_op = "date_step"
  /\ f_pc = "call"
  /\ call_out' = DateStep(call_in)
  /\ f_pc' = "done"
  /\ OtherCalls

Stepped == f_op = "date_step" /\ f_pc = "done"

\* C31 as stated: with skip_existing and no force refresh no request is made
\* and nothing is emitted for a date whose row is stored; otherwise the date is
\* fetched and one upsert is emitted per entry of the returned final_stat, or
\* one upsert for a returned snapshot
C31_SkipExisting ==
  Stepped =>
    IF call_in.fetch_mode = "skip_existing" /\ ~call_in.force_refresh_all
       /\ call_in.stored
    THEN ~call_out.requested /\ call_out.puts = << >>
    ELSE /\ call_out.requested
         /\ Len(call_out.puts) =
              (IF call_in.step = "stat" THEN Len(call_in.body.final_stat)
               ELSE IF call_in.body.present THEN 1 ELSE 0)

\* C31 (amended): with skip_existing and no force refresh no request is made
\* and nothing is emitted for a date whose row the existence read finds
\* stored; otherwise (a read that raises included) the date is fetched, and
\* the upserts emitted are, in order, the entries of the returned final_stat
\* that have a name and a numeric value, or one upsert for a returned snapshot
C31_SkipExistingChecked ==
  Stepped =>
    IF call_in.fetch_mode = "skip_existing" /\ ~call_in.force_refresh_all
       /\ call_in.stored /\ ~call_in.read_raises
    THEN ~call_out.requested /\ call_out.puts = << >>
    ELSE /\ call_out.requested
         /\ IF call_in.step = "equip"
            THEN Len(call_out.puts) = (IF call_in.body.present THEN 1 ELSE 0)
            ELSE LET fs == call_in.body.final_stat
                     ok == {i \in DOMAIN fs :
                              fs[i].stat_name # "" /\ fs[i].stat_value = "12"}
                 IN  /\ Len(call_out.puts) = Cardinality(ok)
                     /\ \A j \in DOMAIN call_out.puts :
                          \E i \in ok :
                            /\ Cardinality({k \in ok : k <= i}) = j
                            /\ call_out.puts[j].stat_name = fs[i].stat_name

\* a sample date that is not stored was fetched; of its two entries the one
\* without a numeric value was dropped
C31_Witness ==
  /\ Stepped
  /\ call_in.step = "stat"
  /\ call_in.fetch_mode = "skip_existing"
  /\ ~call_in.force_refresh_all
  /\ ~call_in.stored
  /\ Len(call_in.body.final_stat) = 2
  /\ call_out.requested
  /\ Len(call_out.puts) = 1

\* ------------------------------------------------------------------------
\* db.py / services.py: the rows of character_item_equipment_best
\* ------------------------------------------------------------------------
\* the bound parameters of the statement of lines 528-537 (updated_at aside)
BestUpserts ==
  [ocid : {Ocid(1), Ocid(2)}, best_equip_date : {Today - 1, Today},
   drop_rate_mentions : {0, 1}, best_equipment_json : {"a", "b"}]

\* the table as a set of rows; the rows before the first statement
BestTables == {{}, {[ocid |-> Ocid(1), best_equip_date |-> Today - 1,
                     drop_rate_mentions |-> 1, best_equipment_json |-> "a"]}}

\* mutant of UpsertBestRow: the conflict target is (ocid, best_equip_date)
UpsertBestRow_perDate(T, u) ==
  IF \E r \in T : r.ocid = u.ocid /\ r.best_equip_date = u.best_equip_date
  THEN {IF r.ocid = u.ocid /\ r.best_equip_date = u.best_equip_date THEN u ELSE r : r \in T}
  ELSE T \cup {u}

\* INSERT ... ON CONFLICT(ocid) DO UPDATE SET col = excluded.col (services.py
\* 528-535) on the table whose primary key is ocid (db.py 156-162)
UpsertBestRow(T, u) ==
  IF \E r \in T : r.ocid = u.ocid
  THEN {IF r.ocid = u.ocid THEN u ELSE r : r \in T}
  ELSE T \cup {u}

RECURSIVE ApplyBestUpserts(_, _)
\* the writer executes the statements in queue order
ApplyBestUpserts(T, us) ==
  IF us = << >> THEN T
  ELSE ApplyBestUpserts(UpsertBestRow(T, Head(us)), Tail(us))

BestUpsertRuns ==
  [table : BestTables,
   upserts : UNION {[1..n -> BestUpserts] : n \in 0..MaxUpserts}]

UpsertBestRows ==
  /\ f_op = "best_upserts"
  /\ f_pc = "call"
  /\ call_out' = [op |-> "best_upserts",
                  table |-> ApplyBestUpserts(call_in.table, call_in.upserts)]
  /\ f_pc' = "done"
  /\ OtherCalls

Upserted == f_op = "best_upserts" /\ f_pc = "done"

\* C32: after any sequence of applied snapshot upserts the table has at most
\* one row per ocid; the row of an ocid is the snapshot, date and cost marker
\* of the last upsert applied for it, and the row of an ocid without an upsert
\* is as it was
C32_BestRowIsLastUpsert ==
  Upserted =>
    LET us == call_in.upserts
        T == call_out.table
    IN  \A o \in {Ocid(1), Ocid(2)} :
          LET mine == {i \in DOMAIN us : us[i].ocid = o}
              rows == {r \in T : r.ocid = o}
          IN  /\ Cardinality(rows) <= 1
              /\ IF mine = {}
                 THEN rows = {r \in call_in.table : r.ocid = o}
                 ELSE rows = {us[CHOOSE i \in mine : \A j \in mine : j <= i]}

\* three upserts, two of them for the same ocid with different dates,
\* snapshots and cost markers, and the stored row is the later one
C32_Witness ==
  /\ Upserted
  /\ Len(call_in.upserts) = 3
  /\ call_in.upserts[1].ocid = Ocid(1)
  /\ call_in.upserts[2].ocid = Ocid(2)
  /\ call_in.upserts[3].ocid = Ocid(1)
  /\ call_in.upserts[1].best_equip_date # call_in.upserts[3].best_equip_date
  /\ call_in.upserts[1].best_equipment_json # call_in.upserts[3].best_equipment_json
  /\ call_in.upserts[1].drop_rate_mentions # call_in.upserts[3].drop_rate_mentions
  /\ call_in.upserts[3] \in call_out.table
  /\ call_in.table # {}

\* ------------------------------------------------------------------------
\* blacklist_fetcher.py: fetch_all_for_date
\* ------------------------------------------------------------------------
\* pages the listing can have
MaxPages == (MaxTotal + PageSize - 1) \div PageSize

\* what the site answers: the totalNum its records carry (Null: none), the
\* number of records on each page, and the page whose request it rejects
\* with a status >= 400 (0: none)
Listings ==
  [total : {Null} \cup (0..MaxTotal), sizes : [1..MaxPages -> 0..PageSize],
   rejects : 0..MaxPages]

\* lines 84-107: post(page); the records of a page carry the page and their
\* place on it
Post(srv, page) ==
  [raised |-> srv.rejects = page,
   listData |-> [i \in 1..srv.sizes[page] |->
                   [page |-> page, no |-> i, totalNum |-> srv.total]]]

\* mutant of TotalPages: the last, partial page is not counted
TotalPages_floor(total_num) == Max2(1, total_num \div PageSize)

\* line 115: total_pages = max(1, math.ceil(total_num / 100))
TotalPages(total_num) == Max2(1, (total_num + PageSize - 1) \div PageSize)

RECURSIVE FetchPages(_, _, _, _)
\* lines 118-121: pages 2..total_pages in turn; a rejected request raises
FetchPages(srv, page, total_pages, acc) ==
  IF page > total_pages THEN acc
  ELSE LET d == Post(srv, page)
       IN  IF d.raised
           THEN [raised |-> TRUE, requests |-> Append(acc.requests, page), rows |-> << >>]
           ELSE FetchPages(srv, page + 1, total_pages,
                           [raised |-> FALSE, requests |-> Append(acc.requests, page),
                            rows |-> acc.rows \o d.listData])

\* lines 109-121
fetch_all_for_date(srv) ==
  LET first == Post(srv, 1)
      data == first.listData
  IN  IF first.raised
      THEN [raised |-> TRUE, requests |-> << 1 >>, rows |-> << >>]
      ELSE IF data = << >>
      THEN [raised |-> FALSE, requests |-> << 1 >>, rows |-> << >>]
      ELSE FetchPages(srv, 2, TotalPages(IntOr0(data[1].totalNum)),
                      [raised |-> FALSE, requests |-> << 1 >>, rows |-> data])

FetchAllForDate ==
  /\ f_op = "fetch_all"
  /\ f_pc = "call"
  /\ call_out' = [op |-> "fetch_all"] @@ fetch_all_for_date(call_in)
  /\ f_pc' = "done"
  /\ OtherCalls

Fetched == f_op = "fetch_all" /\ f_pc = "done"

RECURSIVE PagesInOrder(_, _, _)
\* the records of pages from..to of a listing, in page order
PagesInOrder(srv, from, to) ==
  IF from > to THEN << >>
  ELSE Post(srv, from).listData \o PagesInOrder(srv, from + 1, to)

\* C33: page 1 is requested first and every page at most once, in ascending
\* order; when page 1 has records and reports total T > 0 the pages requested
\* are 1..ceil(T / page size) and the result is their records in page order;
\* when page 1 has no records it is the only request and the result is empty
C33_Pagination ==
  Fetched =>
    /\ call_out.requests = [i \in 1..Len(call_out.requests) |-> i]
    /\ Len(call_out.requests) >= 1
    /\ ~call_out.raised =>
         IF call_in.sizes[1] = 0
         THEN call_out.requests = << 1 >> /\ call_out.rows = << >>
         ELSE (call_in.total # Null /\ call_in.total > 0) =>
                LET pages == (call_in.total + PageSize - 1) \div PageSize
                IN  /\ Len(call_out.requests) = pages
                    /\ call_out.rows = PagesInOrder(call_in, 1, pages)

\* a listing of several pages whose last page is partial was fetched whole
C33_Witness ==
  /\ Fetched
  /\ ~call_out.raised
  /\ call_in.total # Null
  /\ call_in.total > PageSize
  /\ call_in.total % PageSize # 0
  /\ Len(call_out.requests) = (call_in.total \div PageSize) + 1
  /\ Len(call_out.rows) = call_in.total

\* ------------------------------------------------------------------------
\* services.py: _call_with_retry
\* ------------------------------------------------------------------------
\* base_delay = 0.35 (line 259) and the ceiling 6.0 (line 274), in hundredths
\* of a second
BaseDelay == 35

DelayCeiling == 600

\* how one attempt of the call ends: a body, nothing (None or (None, err)),
\* or an exception
AttemptOutcomes == {"value", "absent", "raises"}

\* line 265: range(max(1, int(retries)))
MaxAttempts(retries) == Max2(1, retries)

\* the retries argument and how each attempt the loop can make ends
RetryCalls ==
  UNION {[retries : {r}, outcomes : [1..MaxAttempts(r) -> AttemptOutcomes]] :
           r \in 0..MaxRetries}

\* mutant of Backoff: the delay doubles without a ceiling
Backoff_uncapped(delay) == delay * 2

\* line 274: delay = min(delay * 2, 6.0)
Backoff(delay) == IF delay * 2 <= DelayCeiling THEN delay * 2 ELSE DelayCeiling

RECURSIVE RetryLoop(_, _, _, _)
\* lines 265-275: attempt i of the loop; the attempts made, the result and
\* the sleeps so far
RetryLoop(c, i, delay, sleeps) ==
  IF i > MaxAttempts(c.retries)
  THEN [attempts |-> i - 1, result |-> "absent", raised |-> FALSE, sleeps |-> sleeps]
  ELSE IF c.outcomes[i] = "value"
  THEN [attempts |-> i, result |-> "value", raised |-> FALSE, sleeps |-> sleeps]
  ELSE RetryLoop(c, i + 1, Backoff(delay), Append(sleeps, delay))

_call_with_retry(c) == RetryLoop(c, 1, BaseDelay, << >>)

CallWithRetry ==
  /\ f_op = "retry"
  /\ f_pc = "call"
  /\ call_out' = [op |-> "retry"] @@ _call_with_retry(call_in)
  /\ f_pc' = "done"
  /\ OtherCalls

Retried == f_op = "retry" /\ f_pc = "done"

\* C35: at most max(1, retries) attempts are made; the call returns at the
\* first attempt that yields a body and returns absent after the last failed
\* attempt, an exception counting as a failed attempt and never leaving the
\* function; the delay after a failed attempt starts at base_delay, doubles
\* and never exceeds the ceiling
C35_RetryPerCall ==
  Retried =>
    LET n == IF call_in.retries >= 1 THEN call_in.retries ELSE 1
        hits == {i \in 1..n : call_in.outcomes[i] = "value"}
        sl == call_out.sleeps
    IN  /\ call_out.attempts \in 1..n
        /\ ~call_out.raised
        /\ IF hits = {}
           THEN call_out.result = "absent" /\ call_out.attempts = n
           ELSE /\ call_out.result = "value"
                /\ call_out.attempts \in hits
                /\ \A i \in hits : call_out.attempts <= i
        /\ Len(sl) = (IF hits = {} THEN n ELSE call_out.attempts - 1)
        /\ \A i \in DOMAIN sl :
             /\ sl[i] <= DelayCeiling
             /\ i = 1 => sl[i] = BaseDelay
             /\ i > 1 => sl[i] = (IF 2 * sl[i - 1] <= DelayCeiling THEN 2 * sl[i - 1]
                                  ELSE DelayCeiling)

\* a call whose attempts all failed, one of them with an exception, returned
\* absent after delays that reached the ceiling
C35_Witness ==
  /\ Retried
  /\ call_out.result = "absent"
  /\ call_out.attempts = call_in.retries
  /\ \E i \in DOMAIN call_in.outcomes : call_in.outcomes[i] = "raises"
  /\ \E i \in DOMAIN call_out.sleeps : call_out.sleeps[i] = DelayCeiling

\* ------------------------------------------------------------------------
\* tools_basic_backfill.py: the pending list of run_once
\* ------------------------------------------------------------------------
PendingNames == 1..NumPending

\* the failure reasons of fetch_one_basic that the model tells apart
FailReasons == {"ocid_not_found", "timeout"}

NotListed == [listed |-> FALSE, attempts |-> 0, last_reason |-> "none"]

PendingItems ==
  {NotListed} \cup
  [listed : {TRUE}, attempts : 1..MaxTries, last_reason : FailReasons]

\* the results of one run for a name: none when it is no candidate, one per
\* candidate row; a name that two rows of characters carry has two rows, and
\* rows with an ocid cannot end in ocid_not_found
NameResults == {{}, {"ok"}, {"ocid_not_found"}, {"timeout"}, {"ok", "timeout"}}

BackfillRuns ==
  [old_items : [PendingNames -> PendingItems],
   results : [PendingNames -> NameResults],
   apply_delete : BOOLEAN,
   delete_after_attempts : 0..MaxTries]

\* lines 526-538: updates[nm] of the failed results
Updates(results) ==
  [n \in PendingNames |->
     IF results[n] \cap FailReasons = {} THEN "none"
     ELSE CHOOSE r \in FailReasons : r \in results[n]]

\* mutant of merge_pending: a failure restarts the counter at one
merge_pending_restart(old_items, updates) ==
  [n \in PendingNames |->
     IF updates[n] = "none" THEN old_items[n]
     ELSE [listed |-> TRUE, attempts |-> 1, last_reason |-> updates[n]]]

\* lines 150-179
merge_pending(old_items, updates) ==
  [n \in PendingNames |->
     IF updates[n] = "none" THEN old_items[n]
     ELSE [listed |-> TRUE,
           attempts |-> old_items[n].attempts + 1,
           last_reason |-> updates[n]]]

\* lines 542-545: the names that succeeded leave the list
WithoutNames(items, names) ==
  [n \in PendingNames |-> IF n \in names THEN NotListed ELSE items[n]]

\* lines 551-558: the names the run deletes from character_list
ToDelete(c, items) ==
  IF c.apply_delete /\ c.delete_after_attempts > 0
  THEN {n \in PendingNames :
          /\ items[n].listed
          /\ items[n].attempts >= c.delete_after_attempts
          /\ items[n].last_reason = "ocid_not_found"}
  ELSE {}

\* lines 457-585: the pending file and the deleted names after the run
run_once(c) ==
  IF \A n \in PendingNames : c.results[n] = {}
  THEN [pending |-> c.old_items, deleted |-> {}]
  ELSE LET merged == merge_pending(c.old_items, Updates(c.results))
           success_names == {n \in PendingNames : "ok" \in c.results[n]}
           new_items == WithoutNames(merged, success_names)
           to_delete == ToDelete(c, new_items)
       IN  [pending |-> WithoutNames(new_items, to_delete), deleted |-> to_delete]

RunOnce ==
  /\ f_op = "backfill"
  /\ f_pc = "call"
  /\ call_out' = [op |-> "backfill"] @@ run_once(call_in)
  /\ f_pc' = "done"
  /\ OtherCalls

BackfillDone == f_op = "backfill" /\ f_pc = "done"

FailedIn(c, n) == c.results[n] \cap FailReasons # {}

SucceededIn(c, n) == "ok" \in c.results[n]

\* C37 as stated: after a run every failed name is listed with its previous
\* attempts plus one and this run's reason, every succeeded name is unlisted,
\* every listed name the run did not process keeps its entry, and attempts
\* never decrease while a name stays listed
C37_PendingAccumulation ==
  BackfillDone =>
    \A n \in PendingNames :
      LET old == call_in.old_items[n]
          new == call_out.pending[n]
      IN  /\ FailedIn(call_in, n) =>
               /\ new.listed
               /\ new.attempts = old.attempts + 1
               /\ new.last_reason \in call_in.results[n] \cap FailReasons
          /\ SucceededIn(call_in, n) => ~new.listed
          /\ (call_in.results[n] = {} /\ old.listed) => new = old
          /\ (old.listed /\ new.listed) => new.attempts >= old.attempts

\* C37 (amended): the same for every name that the run does not delete and
\* that did not both fail and succeed in it; a deleted name is unlisted
C37_PendingAccumulationKept ==
  BackfillDone =>
    \A n \in PendingNames :
      LET old == call_in.old_items[n]
          new == call_out.pending[n]
          deleted == n \in call_out.deleted
      IN  /\ (FailedIn(call_in, n) /\ ~SucceededIn(call_in, n) /\ ~deleted) =>
               /\ new.listed
               /\ new.attempts = old.attempts + 1
               /\ new.last_reason \in call_in.results[n] \cap FailReasons
          /\ SucceededIn(call_in, n) => ~new.listed
          /\ deleted => ~new.listed
          /\ (call_in.results[n] = {} /\ old.listed /\ ~deleted) => new = old
          /\ (old.listed /\ new.listed) => new.attempts >= old.attempts

\* a run after which a name that was listed and failed again has one attempt
\* more, while another listed name that was no candidate kept its entry
C37_Witness ==
  /\ BackfillDone
  /\ \E n, m \in PendingNames :
       /\ n # m
       /\ call_in.old_items[n].listed
       /\ FailedIn(call_in, n)
       /\ call_out.pending[n].listed
       /\ call_out.pending[n].attempts = call_in.old_items[n].attempts + 1
       /\ call_in.old_items[m].listed
       /\ call_in.results[m] = {}
       /\ call_out.pending[m] = call_in.old_items[m]

\* ------------------------------------------------------------------------
\* services.py: purge_or_skip_blacklisted over the tables of every world
\* ------------------------------------------------------------------------
Worlds == {"this", "other"}

ListedNames == {"amy", "bob"}

\* the texts a caller can hand over as names; app.py hands over the site's
\* texts as they are (line 774)
NameTexts == {"", "amy", " amy ", "bob"}

\* (x or "").strip()
StripName(t) == IF t = " amy " THEN "amy" ELSE t

ModeTexts == {"skip", " Purge", "drop"}

\* line 841: (mode or "").strip().lower()
NormalMode(m) == IF m = " Purge" THEN "purge" ELSE m

\* an entity is keyed by its ocid; the model has one per world and name
Entities == Worlds \X ListedNames

\* the tables before a call: every stored entity has rows in the sample, the
\* summary, the snapshot-history and the best-snapshot table
Stores ==
  {[character_list |-> L, characters |-> E, character_stats |-> E,
    character_power_summary |-> E, character_item_equipment |-> E,
    character_item_equipment_best |-> E] :
     L \in SUBSET Entities, E \in SUBSET Entities}

ApplyCalls ==
  [world : {"this"}, blacklisted_names : SUBSET NameTexts, mode : ModeTexts,
   delete_equip_history : BOOLEAN, db : Stores]

\* line 849: the stripped, non-blank names
BlacklistedList(names) == {StripName(t) : t \in names} \ {""}

\* mutant of MatchedIn: the world is not part of the match
MatchedIn_anyWorld(db, world, names) ==
  {e \in db.character_list : e[2] \in BlacklistedList(names)}

\* lines 857-867: SELECT ... FROM character_list WHERE world_name=? AND
\* character_name IN (...)
MatchedIn(db, world, names) ==
  {e \in db.character_list : e[1] = world /\ e[2] \in BlacklistedList(names)}

\* mutant of WithoutMatched: the matched names stay listed
WithoutMatched_keep(list, matched) == list

\* lines 871-874: DELETE FROM character_list WHERE world_name=? AND
\* character_name=?
WithoutMatched(list, matched) == list \ matched

\* lines 882-900: the ocids of the matched names and the deletes by ocid
PurgeRows(c, db, matched) ==
  LET ocids == {e \in db.characters : e \in matched}
  IN  [db EXCEPT
         !.character_stats = @ \ ocids,
         !.character_power_summary = @ \ ocids,
         !.character_item_equipment_best = @ \ ocids,
         !.character_item_equipment =
            IF c.delete_equip_history THEN @ \ ocids ELSE @,
         !.characters = @ \ ocids]

\* lines 833-903: what the call returns or raises and the tables after it
ApplyToStore(c, db) ==
  LET m == NormalMode(c.mode)
      matched == MatchedIn(db, c.world, c.blacklisted_names)
      listed == [db EXCEPT !.character_list = WithoutMatched(@, matched)]
  IN  IF m \notin {"skip", "purge"}
      THEN [raised |-> TRUE, matched |-> 0, db |-> db]
      ELSE IF matched = {}
      THEN [raised |-> FALSE, matched |-> 0, db |-> db]
      ELSE IF m = "skip"
      THEN [raised |-> FALSE, matched |-> Cardinality(matched), db |-> listed]
      ELSE [raised |-> FALSE, matched |-> Cardinality(matched),
            db |-> PurgeRows(c, listed, matched)]

\* one call of purge_or_skip_blacklisted
ApplyBlacklist ==
  /\ f_op = "apply"
  /\ f_pc = "call"
  /\ call_out' = [op |-> "apply", first |-> ApplyToStore(call_in, call_in.db),
                  second |-> NoResult]
  /\ f_pc' = "done"
  /\ OtherCalls

\* the same call once more, on the tables the first call left
ApplyBlacklistAgain ==
  /\ f_op = "apply"
  /\ f_pc = "done"
  /\ call_out' = [call_out EXCEPT
                    !.second = ApplyToStore(call_in, call_out.first.db)]
  /\ f_pc' = "again"
  /\ OtherCalls

AppliedOnce == f_op = "apply" /\ f_pc \in {"done", "again"}

AppliedTwice == f_op = "apply" /\ f_pc = "again"

\* C38: a second call with the same names and mode, nothing having changed in
\* between, matches no name and leaves every table as the first call left it
C38_ApplyIdempotent ==
  AppliedTwice =>
    /\ call_out.second.matched = 0
    /\ call_out.second.db = call_out.first.db
    /\ call_out.second.raised = call_out.first.raised

\* a purge that matched a stored entity was repeated
C38_Witness ==
  /\ AppliedTwice
  /\ NormalMode(call_in.mode) = "purge"
  /\ call_out.first.matched >= 1
  /\ call_out.first.db.characters # call_in.db.characters

\* C39: in mode skip exactly the matched names of the world leave the
\* character list and the entity, sample and best tables stay as they were; in
\* both modes the names not given and the names of other worlds stay listed;
\* an invalid mode raises and changes no table
C39_ApplyFrame ==
  AppliedOnce =>
    LET c == call_in
        r == call_out.first
        given == {e \in Entities :
                    \E t \in c.blacklisted_names : t # "" /\ StripName(t) = e[2]}
        gone == c.db.character_list \ r.db.character_list
    IN  /\ r.db.character_list \subseteq c.db.character_list
        /\ NormalMode(c.mode) = "skip" =>
             /\ gone = {e \in c.db.character_list : e[1] = c.world /\ e \in given}
             /\ r.matched = Cardinality(gone)
             /\ r.db.characters = c.db.characters
             /\ r.db.character_stats = c.db.character_stats
             /\ r.db.character_power_summary = c.db.character_power_summary
             /\ r.db.character_item_equipment = c.db.character_item_equipment
             /\ r.db.character_item_equipment_best = c.db.character_item_equipment_best
        /\ \A e \in gone : e[1] = c.world /\ e \in given
        /\ NormalMode(c.mode) \notin {"skip", "purge"} <=> r.raised
        /\ r.raised => r.db = c.db

\* a skip removed a listed name of the world while the same name of the other
\* world, also listed and stored, stayed
C39_Witness ==
  /\ AppliedOnce
  /\ call_in.mode = "skip"
  /\ << "this", "amy" >> \in call_in.db.character_list
  /\ << "this", "amy" >> \notin call_out.first.db.character_list
  /\ << "other", "amy" >> \in call_out.first.db.character_list
  /\ << "this", "amy" >> \in call_out.first.db.characters

\* ------------------------------------------------------------------------
\* blacklist_fetcher.py and app.py: the two tests for a permanent record
\* ------------------------------------------------------------------------
\* the unblock-date texts of a record: those of UnblockTexts and texts of the
\* shape dddd/d(d)/d(d) that name no calendar day, such as "2079/02/30"
PermanentTexts ==
  UnblockTexts \cup
  [fmt : {"slash_noday"}, year : {PermanentYear - 1, PermanentYear}, doy : {0}]

\* blacklist_fetcher.py lines 124-135: the stripped text has to match
\* ^\s*(\d{4})/(\d{1,2})/(\d{1,2})\s*$ and its first group is the year
_is_permanent_unblock_date(s) ==
  IF s.fmt = "empty" THEN FALSE
  ELSE IF s.fmt \in {"slash", "slash_noday"} THEN s.year >= PermanentYear
  ELSE FALSE

\* services.py lines 1013-1016 and app.py line 743 on the same text
ComparePermanent ==
  /\ f_op = "permanent"
  /\ f_pc = "call"
  /\ call_out' = [op |-> "permanent",
                  fetcher |-> _is_permanent_unblock_date(call_in.unBlockedDate),
                  app |-> is_permanent_unblock_date(call_in.unBlockedDate)]
  /\ f_pc' = "done"
  /\ OtherCalls

PermanentCompared == f_op = "permanent" /\ f_pc = "done"

\* C40: for every unblock-date text the test of the sync and the test of the
\* preview classification give the same answer
C40_ClassifiersAgree ==
  PermanentCompared => call_out.fetcher = call_out.app

\* ------------------------------------------------------------------------
\* Properties of the writer
\* ------------------------------------------------------------------------
\* the tables as the writer's connection sees them
Applied == ExecuteAll(Tables, uncommitted)

\* C20: when executing an intent raises, the writer skips it and goes on to
\* the next item; what the batch applied before stays applied, later intents
\* are applied on top, and everything applied is committed when the writer
\* exits
C20_FailingIntentSkipped ==
  /\ [][(w_pc = "exec" /\ w_pc' # "exec") =>
          /\ w_pc' = "get"
          /\ h_exec' = h_exec \cup {w_item}
          /\ Applied' = (IF ExecRaises(w_item) THEN Applied
                         ELSE Execute(Applied, w_item))]_vars
  /\ [][(w_pc = "get" /\ w_pc' = "done") => Tables' = Applied]_vars
  /\ [](w_pc = "done" => uncommitted = << >>)

\* the writer has exited after a failing profile statement, and the stat row
\* and the snapshot row it executed after the failure are committed
C20_Witness ==
  /\ cycle = 1
  /\ w_pc = "done"
  /\ \E it \in h_exec :
       /\ ExecRaises(it)
       /\ it.ocid \notin DOMAIN characters
       /\ \E t \in character_stats : t[1] = it.ocid
       /\ it.ocid \in DOMAIN best

\* ------------------------------------------------------------------------
\* Properties of the queues of update_characters
\* ------------------------------------------------------------------------
\* C21: the write queue never holds more items than its capacity; a worker
\* is suspended in put only on the full queue with intents left to put; while
\* the queue is full the suspended worker stays where it is, nothing is
\* enqueued and the only change of the queue is the writer taking its head;
\* once the queue has room the suspended worker can go on
C21_Backpressure ==
  /\ [](Len(write_q) <= WriteQMax)
  /\ [][\A w \in Workers :
          (workers[w].pc = "put" /\ Len(write_q) >= WriteQMax)
            => /\ workers'[w] = workers[w]
               /\ h_put' = h_put
               /\ write_q' \in {write_q, Tail(write_q)}]_vars
  /\ [][\A w \in Workers :
          (workers[w].pc # "put" /\ workers'[w].pc = "put")
            => /\ Len(write_q') = WriteQMax
               /\ workers'[w].out # << >>]_vars
  /\ [](\A w \in Workers :
          (workers[w].pc = "put" /\ Len(write_q) < WriteQMax)
            => ENABLED WorkerPut(w))

\* a worker is suspended in put and the writer has just taken an item
C21_Witness ==
  /\ w_pc = "exec"
  /\ Len(write_q) = WriteQMax - 1
  /\ \E w \in Workers : workers[w].pc = "put" /\ workers[w].out # << >>

\* C22: the writer commits every db_batch intents and whenever the queue
\* drains: it never waits on the empty write queue while statements it has
\* applied are uncommitted
C22_CommitOnDrain ==
  ~(w_pc = "get" /\ write_q = << >> /\ uncommitted # << >>)

\* C23: during a run the tables change only in a step of the writer task,
\* and what they become is the result of the statements the writer executed;
\* no step of a worker changes a table
C23_WriterOnlyMutator ==
  /\ [][dbvars' # dbvars
          => /\ w_pc \in {"get", "exec"}
             /\ w_pc' # w_pc
             /\ workers' = workers
             /\ character_list' = character_list
             /\ Tables' = (IF w_pc = "exec"
                           THEN ExecuteAll(Tables, Executed(uncommitted, w_item))
                           ELSE Applied)
             /\ Range(uncommitted) \subseteq h_exec']_vars
  /\ [][workers' # workers => dbvars' = dbvars]_vars

\* the writer has committed the profile of a new character while a worker
\* is about to read the tables for the next name
C23_Witness ==
  /\ cycle = 1
  /\ \E w \in Workers : workers[w].pc = "resolve"
  /\ \E it \in h_exec :
       /\ it.op = "basic"
       /\ kind[NameOf(it.ocid)] = "new"
       /\ it.ocid \in DOMAIN characters

\* C25: a listed name with no stored profile, whose identity the API resolves
\* and whose profile the API returns with level L, has after one completed
\* cycle one characters row with level L and updated_at of the cycle
C25_NewProfileStored ==
  (cycle = 1 /\ m_pc = "done") =>
    \A n \in character_list :
      kind[n] = "new" =>
        /\ Ocid(n) \in DOMAIN characters
        /\ characters[Ocid(n)].character_level = get_basic(Ocid(n)).character_level
        /\ characters[Ocid(n)].updated_at = Today

\* C26: when the stop sentinel is put on the write queue every worker has
\* left its loop, and no intent is enqueued after the sentinel
C26_SentinelAfterProducers ==
  [][/\ (m_pc = "put_stop" /\ m_pc' = "await_writer")
          => \A w \in Workers : workers[w].pc \in {"off", "done", "dead"}
     /\ (m_pc \in {"await_writer", "gather"}) => h_put' = h_put]_vars

\* C27: task_done is called on the name queue once per dequeued item: the
\* count of unfinished items is never below the number of items still queued
\* or in the hands of a worker, and name_q.join() has returned only when no
\* item is queued or in the hands of a worker
C27_TaskDoneOncePerItem ==
  LET handling ==
        {w \in Workers : workers[w].pc \in {"resolve", "basic", "stat", "equip", "put"}}
  IN  /\ name_unfinished >= Len(name_q) + Cardinality(handling)
      /\ m_pc # "join_name" => (name_q = << >> /\ handling = {})

\* C28: the writer exits only on the sentinel, and its exit commits what it
\* applied: once it has exited no applied statement is uncommitted and every
\* statement it executed without error is in the tables
C28_WriterFlushesOnStop ==
  /\ [][(w_pc # "done" /\ w_pc' = "done")
          => /\ w_pc = "get"
             /\ Head(write_q) = Stop
             /\ Tables' = Applied
             /\ uncommitted' = << >>]_vars
  /\ [](w_pc = "done"
          => /\ uncommitted = << >>
             /\ \A it \in h_exec :
                  \/ ExecRaises(it)
                  \/ it.op = "basic" /\ it.ocid \in DOMAIN characters
                  \/ it.op = "stat"
                       /\ << it.ocid, it.stat_date, it.stat_name >> \in character_stats
                  \/ it.op = "equip" /\ it.ocid \in DOMAIN best)

\* the writer has exited after a number of statements that is not a multiple
\* of db_batch, and the rows of a new character are in the tables
C28_Witness ==
  /\ cycle = 1
  /\ w_pc = "done"
  /\ Cardinality(h_exec) % cfg.db_batch # 0
  /\ \E it \in h_exec :
       /\ it.op = "equip"
       /\ kind[NameOf(it.ocid)] = "new"
       /\ it.ocid \in DOMAIN best
       /\ it.ocid \in DOMAIN characters

\* C29: a name that is not known locally and for which the resolve call
\* returns no ocid is skipped entirely: its worker goes from the resolve step
\* straight to the next name without enqueuing anything, no worker is ever at
\* a profile, sample or snapshot step for it, and no intent is emitted for it
C29_UnresolvedSkipped ==
  /\ [][\A w \in Workers :
          (/\ workers[w].pc = "resolve"
           /\ workers'[w] # workers[w]
           /\ _get_ocid_from_db(workers[w].name) = Null
           /\ get_ocid(workers[w].name) = Null)
            => /\ workers'[w].pc \in {"get", "dead"}
               /\ h_put' = h_put
               /\ write_q' = write_q]_vars
  /\ [](\A w \in Workers :
          workers[w].pc \in {"basic", "stat", "equip", "put"}
            => /\ workers[w].ocid # Null
               /\ get_ocid(workers[w].name) # Null
                    \/ _get_ocid_from_db(workers[w].name) # Null)
  /\ [](\A it \in (h_put \cup Range(write_q)) \ {Stop} :
          get_ocid(NameOf(it.ocid)) # Null)

\* a cycle has ended in which an unresolved name was dequeued and skipped
\* and the intents of another name were emitted
C29_Witness ==
  /\ cycle = 1
  /\ m_pc = "done"
  /\ h_put # {}
  /\ \E n \in h_deq : get_ocid(n) = Null /\ _get_ocid_from_db(n) = Null

\* the place of a sub-step in the per-entity protocol: the profile (line
\* 428), then the sample dates in list order (481), then the snapshot dates
\* in list order (507)
StepOf(phase, idx) ==
  IF phase = "basic" THEN 0
  ELSE IF phase = "stat" THEN idx
  ELSE Len(cfg.stat_dates) + idx

\* the place of the sub-step a worker is at; the resolve step and the
\* staleness check (lines 411-426) come first
Position(me) ==
  IF me.pc = "resolve" THEN 0 - 1
  ELSE IF me.pc = "put" THEN StepOf(me.phase, me.idx)
  ELSE StepOf(me.pc, me.idx)

\* store_date of line 508 for each snapshot date
StoreDates ==
  [i \in DOMAIN cfg.equip_dates |->
     IF cfg.equip_dates[i] = Null THEN cfg.base_date ELSE cfg.equip_dates[i]]

\* the place of the sub-step that emits an intent
Rank(it) ==
  IF it.op = "basic" THEN StepOf("basic", 0)
  ELSE IF it.op = "stat"
  THEN StepOf("stat", CHOOSE i \in DOMAIN cfg.stat_dates : cfg.stat_dates[i] = it.stat_date)
  ELSE StepOf("equip", CHOOSE i \in DOMAIN StoreDates : StoreDates[i] = it.best_equip_date)

\* the intents on their way through the writer, oldest first: applied and
\* uncommitted, being executed, queued
Pipeline ==
  uncommitted \o (IF w_pc = "exec" THEN << w_item >> ELSE << >>)
              \o SelectSeq(write_q, LAMBDA x : x # Stop)

\* C30: a worker goes through the sub-steps of an entity in the order resolve
\* and staleness check, profile, samples in list order, snapshots in list
\* order; an intent is enqueued at its sub-step, at the tail of the queue and
\* after every earlier intent of the entity; the writer takes the head of the
\* queue, so the intents of an entity are applied in the order of emission
C30_PerEntityOrder ==
  /\ [][\A w \in Workers :
          (/\ workers[w].name # Null
           /\ workers'[w].name = workers[w].name
           /\ workers'[w] # workers[w])
            => /\ Position(workers'[w]) >= Position(workers[w])
               /\ (workers[w].pc # "put" /\ workers'[w].pc # "put")
                     => Position(workers'[w]) > Position(workers[w])]_vars
  /\ [][\A it \in h_put' \ h_put :
          /\ \E w \in Workers :
               workers[w].ocid = it.ocid /\ Rank(it) = Position(workers[w])
          /\ \A old \in h_put : old.ocid = it.ocid => Rank(old) < Rank(it)
          /\ \E i \in (Len(write_q) + 1)..Len(write_q') : write_q'[i] = it]_vars
  /\ [](\A i, j \in DOMAIN Pipeline :
          (i < j /\ Pipeline[i].ocid = Pipeline[j].ocid)
            => Rank(Pipeline[i]) < Rank(Pipeline[j]))
  /\ [][(w_pc = "get" /\ w_pc' = "exec")
          => /\ w_item' = Head(write_q)
             /\ \A it \in h_exec :
                  it.ocid = w_item'.ocid => Rank(it) < Rank(w_item')]_vars

\* the intents of two entities are interleaved on their way through the
\* writer, those of each entity in the order of its sub-steps
C30_Witness ==
  /\ cycle = 1
  /\ \E i, j, k \in DOMAIN Pipeline :
       /\ i < j /\ j < k
       /\ Pipeline[i].ocid = Pipeline[k].ocid
       /\ Pipeline[j].ocid # Pipeline[i].ocid
       /\ Pipeline[i].op = "basic"
       /\ Pipeline[k].op = "stat"

InitDB ==
  /\ character_list = 1..NumListed
  /\ characters = [o \in {Ocid(1)} |->
                     [character_name |-> 1, character_level |-> 1,
                      character_class |-> Null, updated_at |-> 1]]
  /\ character_stats = {<< Ocid(1), 1, "power" >>}
  /\ best = [o \in {Ocid(1)} |-> [best_equip_date |-> 1]]

InitSyncVars ==
  /\ last_success_date = Null
  /\ s_pc = "idle"
  /\ first_start_date = Null
  /\ mode = "skip"
  /\ permanent_only = TRUE
  /\ latest = Null
  /\ start = Null
  /\ cur_day = Null
  /\ done_days = 0
  /\ s_names = {}
  /\ s_result = [ran |-> FALSE, reason |-> "none", total_days |-> 0]
  /\ h_applied = {}
  /\ h_fetched = << >>
  /\ h_cursor0 = Null
  /\ cli = NoSession
  /\ h_inits = 0
  /\ h_sent = {}

InitUCIdle ==
  /\ cfg = [max_workers |-> 1, only_expired |-> FALSE, force_refresh_all |-> FALSE,
            fetch_mode |-> "skip_existing", refresh_days |-> 1, base_date |-> Today,
            stat_dates |-> StatDates(0), equip_dates |-> << >>, db_batch |-> DbBatch]
  /\ kind = [n \in Names |-> "new"]
  /\ cycle = 0
  /\ name_q = << >>
  /\ name_unfinished = 0
  /\ write_q = << >>
  /\ write_unfinished = 0
  /\ m_pc = "done"
  /\ w_pc = "done"
  /\ w_item = Stop
  /\ pending = 0
  /\ uncommitted = << >>
  /\ workers = [w \in Workers |-> At("off")]
  /\ done_counter = 0
  /\ h_put = {}
  /\ h_exec = {}
  /\ h_deq = {}
  /\ h_faulty = FALSE

\* no function call in progress
InitFnIdle ==
  /\ f_op = "none"
  /\ f_pc = "done"
  /\ sel_in = NoEquip
  /\ sel_out = NoEquip
  /\ cut_in = NoClock
  /\ cut_out = NoDays
  /\ cls_in = NoRecord
  /\ cls_out = "none"
  /\ api_in = NoCall
  /\ api_out = NoReturn
  /\ call_in = NoArgs
  /\ call_out = NoResult

InitSync == InitDB /\ InitSyncVars /\ InitUCIdle /\ InitFnIdle

NextSync ==
  \/ \E first \in Days, today \in Todays, hour \in Hours, m \in Modes,
        po \in BOOLEAN : SyncStart(first, today, hour, m, po)
  \/ \E ok \in BOOLEAN, sess \in Sessions : SyncInit(ok, sess)
  \/ \E rows \in SUBSET ListRows,
        sess \in (IF NeedsInit(cli) THEN Sessions ELSE {cli}) :
       SyncFetch(TRUE, rows, sess)
  \/ SyncFetch(FALSE, {}, cli)
  \/ \E ok \in BOOLEAN : SyncApply(ok)
  \/ SyncPersist
  \/ SyncProgressRaises
  \/ SyncCrash

SpecSync == InitSync /\ [][NextSync]_vars

\* the arguments of the calls explored: the defaults of the dashboard, and
\* every call that departs from them in one argument
DefaultCfg ==
  [max_workers |-> 1, only_expired |-> FALSE, force_refresh_all |-> FALSE,
   fetch_mode |-> "skip_existing", refresh_days |-> 1, base_date |-> Today,
   stat_dates |-> StatDates(0), equip_dates |-> EquipDates(TRUE, "today", 0),
   db_batch |-> DbBatch]

CfgSpace ==
  [max_workers : 1..MaxWorkers,
   only_expired : BOOLEAN,
   force_refresh_all : BOOLEAN,
   fetch_mode : {"skip_existing", "full_fetch"},
   refresh_days : {1},
   base_date : {Today},
   stat_dates : {StatDates(0), StatDates(1)},
   equip_dates : {EquipDates(TRUE, "today", 0), EquipDates(TRUE, "range", 1)},
   db_batch : {DbBatch}]

Cfgs ==
  {c \in CfgSpace :
     Cardinality({f \in DOMAIN DefaultCfg : c[f] # DefaultCfg[f]}) <= 1}

\* the work lists explored: at most two kinds of name in one list; with more
\* than one worker the list is one name shorter and the kinds are those that
\* decide the control flow
KindsFor(c) ==
  IF c.max_workers > 1 THEN {"unresolved", "new", "throws"} ELSE Kinds

ListFor(c) ==
  IF c.max_workers > 1 THEN 1..(NumNames - 1) ELSE Names

KindAssignments(c) ==
  {k \in [Names -> KindsFor(c)] :
     /\ Cardinality({k[n] : n \in Names}) <= 2
     /\ \A n \in Names \ ListFor(c) : k[n] = "new"}

StoredKinds == {"fresh", "stale", "throws"}

\* the tables before the first call: the rows the kinds stand for
InitUC ==
  /\ InitSyncVars
  /\ InitFnIdle
  /\ cfg \in Cfgs
  /\ kind \in KindAssignments(cfg)
  /\ character_list = ListFor(cfg)
  /\ characters = [o \in {Ocid(n) : n \in {x \in ListFor(cfg) : kind[x] \in StoredKinds}} |->
                     [character_name |-> NameOf(o), character_level |-> 2,
                      character_class |-> 1,
                      updated_at |-> IF kind[NameOf(o)] = "fresh" THEN Today
                                     ELSE Today - 1]]
  /\ character_stats = {<< Ocid(n), Today, "power" >> : n \in {x \in ListFor(cfg) : kind[x] = "fresh"}}
  /\ best = [o \in {Ocid(n) : n \in {x \in ListFor(cfg) : kind[x] = "fresh"}} |->
               [best_equip_date |-> Today]]
  /\ cycle = 1
  /\ name_q = Names0(cfg.max_workers)
  /\ name_unfinished = Len(Names0(cfg.max_workers))
  /\ write_q = << >>
  /\ write_unfinished = 0
  /\ m_pc = "join_name"
  /\ w_pc = "get"
  /\ w_item = Stop
  /\ pending = 0
  /\ uncommitted = << >>
  /\ workers = [w \in Workers |-> IF w <= cfg.max_workers THEN At("get") ELSE At("off")]
  /\ done_counter = 0
  /\ h_put = {}
  /\ h_exec = {}
  /\ h_deq = {}
  /\ h_faulty = FALSE

NextUC ==
  \/ \E w \in Workers : WorkerGet(w)
  \/ \E w \in Workers : WorkerResolve(w)
  \/ \E w \in Workers : WorkerBasic(w)
  \/ \E w \in Workers : WorkerStat(w)
  \/ \E w \in Workers : WorkerEquip(w)
  \/ \E w \in Workers : WorkerPut(w)
  \/ WriterGet
  \/ WriterExec
  \/ MainJoin
  \/ MainPutStop
  \/ MainAwaitWriter
  \/ MainGather
  \/ UpdateCharactersAgain

SpecUC == InitUC /\ [][NextUC]_vars

\* ------------------------------------------------------------------------
\* The functions of the program, each called once on every argument explored
\* ------------------------------------------------------------------------
InitFn ==
  /\ InitDB
  /\ InitSyncVars
  /\ InitUCIdle
  /\ f_pc = "call"
  /\ \/ /\ f_op = "select"
        /\ sel_in \in SelInputs
        /\ cut_in = NoClock
        /\ cls_in = NoRecord
        /\ api_in = NoCall
        /\ call_in = NoArgs
     \/ /\ f_op = "cutover"
        /\ sel_in = NoEquip
        /\ cut_in \in [today : Todays, hour : DayHours]
        /\ cls_in = NoRecord
        /\ api_in = NoCall
        /\ call_in = NoArgs
     \/ /\ f_op = "classify"
        /\ sel_in = NoEquip
        /\ cut_in = NoClock
        /\ cls_in \in [blockDate : BlockTexts, unBlockedDate : UnblockTexts]
        /\ api_in = NoCall
        /\ call_in = NoArgs
     \/ /\ f_op = "date_step"
        /\ sel_in = NoEquip
        /\ cut_in = NoClock
        /\ cls_in = NoRecord
        /\ api_in = NoCall
        /\ call_in \in DateSteps
     \/ /\ f_op = "best_upserts"
        /\ sel_in = NoEquip
        /\ cut_in = NoClock
        /\ cls_in = NoRecord
        /\ api_in = NoCall
        /\ call_in \in BestUpsertRuns
     \/ /\ f_op = "fetch_all"
        /\ sel_in = NoEquip
        /\ cut_in = NoClock
        /\ cls_in = NoRecord
        /\ api_in = NoCall
        /\ call_in \in Listings
     \/ /\ f_op = "retry"
        /\ sel_in = NoEquip
        /\ cut_in = NoClock
        /\ cls_in = NoRecord
        /\ api_in = NoCall
        /\ call_in \in RetryCalls
     \/ /\ f_op = "backfill"
        /\ sel_in = NoEquip
        /\ cut_in = NoClock
        /\ cls_in = NoRecord
        /\ api_in = NoCall
        /\ call_in \in BackfillRuns
     \/ /\ f_op = "apply"
        /\ sel_in = NoEquip
        /\ cut_in = NoClock
        /\ cls_in = NoRecord
        /\ api_in = NoCall
        /\ call_in \in ApplyCalls
     \/ /\ f_op = "permanent"
        /\ sel_in = NoEquip
        /\ cut_in = NoClock
        /\ cls_in = NoRecord
        /\ api_in = NoCall
        /\ call_in \in [unBlockedDate : PermanentTexts]
     \/ /\ f_op = "client"
        /\ sel_in = NoEquip
        /\ cut_in = NoClock
        /\ cls_in = NoRecord
        /\ api_in \in ApiCalls
        /\ call_in = NoArgs
  /\ sel_out = NoEquip
  /\ cut_out = NoDays
  /\ cls_out = "none"
  /\ api_out = NoReturn
  /\ call_out = NoResult

NextFn ==
  \/ SelectBest
  \/ LatestAvailable
  \/ Classify
  \/ ClientOperation
  \/ OneDate
  \/ UpsertBestRows
  \/ FetchAllForDate
  \/ CallWithRetry
  \/ RunOnce
  \/ ApplyBlacklist
  \/ ApplyBlacklistAgain
  \/ ComparePermanent

SpecFn == InitFn /\ [][NextFn]_vars

====
